---- MODULE Spec2Model ----
(***************************************************************************)
(* Metrics table engine of vascohq-jobs (frontend/src/metrics-table and    *)
(* frontend/src/periods): the period algebra, the MetricsTable with its    *)
(* recompute and aggregate passes, and the SubscribableMetricsTable.       *)
(*                                                                         *)
(* Encoding of JavaScript values:                                          *)
(*   - a string is a sequence of characters, each a one-character string,  *)
(*     or the name of its code point ("U+00A0") when it cannot be written; *)
(*   - a Decimal is Dec(n) when it is an integer of at most nine digits,   *)
(*     Decimal(s, e, d) with decimal.js's sign, exponent and digits        *)
(*     otherwise; undefined is Undefined;                                  *)
(*   - a number is an integer, NaN is the reserved integer NaN and every   *)
(*     arithmetic operator on numbers treats it as JavaScript does;        *)
(*   - a Map or a Set is the sequence of its entries in insertion order;   *)
(*   - the row Maps a constructor makes are objects: maps holds each at    *)
(*     its place, and a table refers to its row Maps by their places.      *)
(***************************************************************************)
EXTENDS Integers, Sequences, FiniteSets, TLC

VARIABLES
    cfg,        \* the configuration the table was constructed with
    maps,       \* every row Map in existence: place -> Map(period key -> Decimal)
    rows,       \* MetricsTable.data: metric name -> the place of its row Map
    subs,       \* SubscribableMetricsTable.subscriptions (Undefined until first subscribe)
    handles,    \* the unsubscribe closure each callback's owner holds, if any
    cloneRows,  \* data of the table returned by the last deepClone, if any
    call        \* the last public call: its arguments and what it returned or threw

vars == <<cfg, maps, rows, subs, handles, cloneRows, call>>

-----------------------------------------------------------------------------
(* JavaScript values *)

Undefined == [undefined |-> TRUE]

Dec(n) == [dec |-> n]

NaN == 0 - 1000000

Add(a, b) == IF a = NaN \/ b = NaN THEN NaN ELSE a + b

Sub(a, b) == IF a = NaN \/ b = NaN THEN NaN ELSE a - b

Mul(a, b) == IF a = NaN \/ b = NaN THEN NaN ELSE a * b

\* a <= b on numbers: false as soon as one side is NaN
Le(a, b) == a # NaN /\ b # NaN /\ a <= b

\* a === b on numbers: NaN is not equal to itself
StrictEq(a, b) == a # NaN /\ b # NaN /\ a = b

Digits == <<"0", "1", "2", "3", "4", "5", "6", "7", "8", "9">>

IsDigit(c) == \E i \in 1..10 : Digits[i] = c

DigitValue(c) == (CHOOSE i \in 1..10 : Digits[i] = c) - 1

RECURSIVE NatToString(_)
NatToString(n) ==
    IF n < 10 THEN <<Digits[n + 1]>>
    ELSE NatToString(n \div 10) \o <<Digits[(n % 10) + 1]>>

\* Number.prototype.toString / template literal conversion of an integer or NaN
NumberToString(n) ==
    IF n = NaN THEN <<"N", "a", "N">>
    ELSE IF n < 0 THEN <<"-">> \o NatToString(0 - n)
    ELSE NatToString(n)

\* String.prototype.padStart(len, c)
RECURSIVE PadStart(_, _, _)
PadStart(s, len, c) ==
    IF Len(s) >= len THEN s ELSE PadStart(<<c>> \o s, len, c)

\* String.prototype.split(sep) for a one-character separator
RECURSIVE Split(_, _)
Split(s, sep) ==
    IF \E i \in 1..Len(s) : s[i] = sep
    THEN LET i == CHOOSE j \in 1..Len(s) :
                     s[j] = sep /\ \A k \in 1..(j - 1) : s[k] # sep
         IN  <<SubSeq(s, 1, i - 1)>> \o Split(SubSeq(s, i + 1, Len(s)), sep)
    ELSE <<s>>

\* the value of the longest prefix of digits of s, NaN when s starts with no digit
RECURSIVE ParseDigits(_, _, _)
ParseDigits(s, i, acc) ==
    IF i <= Len(s) /\ IsDigit(s[i])
    THEN ParseDigits(s, i + 1, (IF acc = NaN THEN 0 ELSE acc * 10) + DigitValue(s[i]))
    ELSE acc

\* StrWhiteSpaceChar: WhiteSpace (tab, vertical tab, form feed, space,
\* no-break space, byte order mark, the space separators) and LineTerminator
\* (line feed, carriage return, line and paragraph separator)
StrWhiteSpaceChar ==
    {"\t", "U+000B", "\f", " ", "U+00A0", "U+FEFF",
     "U+1680", "U+2000", "U+2001", "U+2002", "U+2003", "U+2004", "U+2005",
     "U+2006", "U+2007", "U+2008", "U+2009", "U+200A", "U+202F", "U+205F",
     "U+3000",
     "\n", "\r", "U+2028", "U+2029"}

\* parseInt(s, 10): leading white space is skipped, then an optional sign,
\* then the leading digits; NaN without digits
parseInt(s) ==
    LET WhiteSpace  == StrWhiteSpaceChar
        Negative(n) == IF n = NaN THEN NaN ELSE 0 - n
        From(first) ==
            IF first <= Len(s) /\ s[first] = "-"
            THEN Negative(ParseDigits(s, first + 1, NaN))
            ELSE IF first <= Len(s) /\ s[first] = "+"
            THEN ParseDigits(s, first + 1, NaN)
            ELSE ParseDigits(s, first, NaN)
    IN  IF \A i \in 1..Len(s) : s[i] \in WhiteSpace THEN NaN
        ELSE From(CHOOSE i \in 1..Len(s) :
                      s[i] \notin WhiteSpace /\ \A k \in 1..(i - 1) : s[k] \in WhiteSpace)

-----------------------------------------------------------------------------
(* decimal.js at its defaults: 20 significant digits, ROUND_HALF_UP.  A      *)
(* Decimal that is an integer of at most nine digits (and is not -0) is      *)
(* Dec(n); any other is Decimal(s, e, d), the fields decimal.js gives it:    *)
(* the sign s, the exponent e of the first digit and the digits d, here one  *)
(* decimal digit per element and no trailing zero.  d is <<>> for NaN (s is  *)
(* NaN) and for Infinity.  decimal.js holds the digits in words of seven     *)
(* (base 1e7); a word is known here by the exponents of its digits.          *)

precision == 20

Min(a, b) == IF a < b THEN a ELSE b

Max(a, b) == IF a > b THEN a ELSE b

Abs(n) == IF n < 0 THEN 0 - n ELSE n

Decimal(s, e, d) == [s |-> s, e |-> e, d |-> d]

DecimalNaN == Decimal(NaN, NaN, <<>>)

DecimalInfinity(s) == Decimal(s, NaN, <<>>)

DecimalZero(s) == Decimal(s, 0, <<0>>)

Zeros(n) == [i \in 1..n |-> 0]

\* a natural number is the sequence of its digits, <<>> for 0
RECURSIVE NatDigits(_)
NatDigits(n) == IF n = 0 THEN <<>> ELSE Append(NatDigits(n \div 10), n % 10)

RECURSIVE DigitsNat(_, _)
DigitsNat(d, i) == IF i = 0 THEN 0 ELSE 10 * DigitsNat(d, i - 1) + d[i]

LeadingZeros(d) ==
    IF \A i \in 1..Len(d) : d[i] = 0 THEN Len(d)
    ELSE (CHOOSE i \in 1..Len(d) : d[i] # 0 /\ \A k \in 1..(i - 1) : d[k] = 0) - 1

TrailingZeros(d) ==
    IF \A i \in 1..Len(d) : d[i] = 0 THEN Len(d)
    ELSE Len(d) - (CHOOSE i \in 1..Len(d) : d[i] # 0 /\ \A k \in (i + 1)..Len(d) : d[k] = 0)

Trim(d) == SubSeq(d, LeadingZeros(d) + 1, Len(d))

\* the digits of the number whose columns, most significant first, hold any
\* integers: each column keeps its last digit and carries the rest
RECURSIVE Carry(_, _, _)
Carry(columns, i, carry) ==
    IF i = 0 THEN NatDigits(carry)
    ELSE LET t == columns[i] + carry IN
         Append(Carry(columns, i - 1, t \div 10), t % 10)

PadLeft(d, n) == Zeros(n - Len(d)) \o d

NatAdd(a, b) ==
    LET n == Max(Len(a), Len(b))
        x == PadLeft(a, n)
        y == PadLeft(b, n)
    IN  Trim(Carry([i \in 1..n |-> x[i] + y[i]], n, 0))

\* a - b for a >= b
NatSub(a, b) ==
    LET y == PadLeft(b, Len(a)) IN
    Trim(Carry([i \in 1..Len(a) |-> a[i] - y[i]], Len(a), 0))

NatScale(a, k) == Trim(Carry([i \in 1..Len(a) |-> a[i] * k], Len(a), 0))

\* the sum of the products a[j] * b[k] of one column of the long
\* multiplication, the column of the digits with j + k = c + 1
RECURSIVE ColumnSum(_, _, _, _)
ColumnSum(a, b, c, i) ==
    IF i = 0 THEN 0
    ELSE (IF c + 1 - i \in 1..Len(b) THEN a[i] * b[c + 1 - i] ELSE 0)
             + ColumnSum(a, b, c, i - 1)

NatMul(a, b) ==
    IF a = <<>> \/ b = <<>> THEN <<>>
    ELSE LET n == Len(a) + Len(b) - 1
             columns == [c \in 1..n |-> ColumnSum(a, b, c, Len(a))] \o <<>>
         IN  Trim(Carry(columns, n, 0))

NatLe(a, b) ==
    \/ Len(a) < Len(b)
    \/ /\ Len(a) = Len(b)
       /\ \/ a = b
          \/ \E i \in 1..Len(a) : a[i] < b[i] /\ \A k \in 1..(i - 1) : a[k] = b[k]

IsFinite(x) == x.d # <<>>

IsZero(x) == x.d = <<0>>

\* the decimal.js fields of a Decimal
Fields(x) ==
    IF "dec" \in DOMAIN x
    THEN IF x.dec = 0 THEN DecimalZero(1)
         ELSE LET digits == NatDigits(Abs(x.dec)) IN
              Decimal(IF x.dec < 0 THEN 0 - 1 ELSE 1, Len(digits) - 1,
                      SubSeq(digits, 1, Len(digits) - TrailingZeros(digits)))
    ELSE x

\* the Decimal with these fields
Canonical(x) ==
    IF IsFinite(x) /\ ~(IsZero(x) /\ x.s < 0) /\ x.e >= Len(x.d) - 1 /\ x.e <= 8
    THEN Dec(x.s * DigitsNat(x.d \o Zeros(x.e - (Len(x.d) - 1)), x.e + 1))
    ELSE x

\* the exponent of the last digit
LastExponent(x) == x.e - (Len(x.d) - 1)

\* the fields of sign * digits * 10^exponent, digits a natural number
Normal(sign, digits, exponent) ==
    IF digits = <<>> THEN DecimalZero(sign)
    ELSE Decimal(sign, exponent + Len(digits) - 1,
                 SubSeq(digits, 1, Len(digits) - TrailingZeros(digits)))

\* finalise(x, precision, ROUND_HALF_UP): x rounded to 20 significant digits,
\* the 21st digit rounding away from zero from 5 up
finalise(x) ==
    IF IsFinite(x) /\ Len(x.d) > precision
    THEN LET kept == SubSeq(x.d, 1, precision) IN
         Normal(x.s,
                IF x.d[precision + 1] >= 5 THEN NatAdd(kept, <<1>>) ELSE kept,
                x.e - (precision - 1))
    ELSE x

LOG_BASE == 7

\* the smaller operand of P.plus (extra is 1) and of P.minus (extra is 2) as
\* it enters the loop over the words: when its first word lies more than
\* max(ceil(precision / LOG_BASE), the number of words of the larger operand)
\* + extra words below the first word of the larger operand, it is cut to
\* that first word, which is put that many words below (k = i, d.length = 1)
Cut(small, large, extra) ==
    LET Word(e)  == e \div LOG_BASE
        Words(z) == Word(z.e) - Word(LastExponent(z)) + 1
        First(kept, down) ==
            Normal(small.s, SubSeq(small.d, 1, kept), small.e + LOG_BASE * down - (kept - 1))
        Within(gap, limit) ==
            IF gap > limit
            THEN First(Min(Len(small.d), small.e - LOG_BASE * Word(small.e) + 1), gap - limit)
            ELSE small
    IN  Within(Word(large.e) - Word(small.e),
               Max((precision + LOG_BASE - 1) \div LOG_BASE, Words(large)) + extra)

\* P.plus on the fields, without the final rounding (external is false)
plusFields(x, y) ==
    LET Scaled(z, exponent) == z.d \o Zeros(LastExponent(z) - exponent)
        Difference(a, b, exponent) ==
            IF a = b THEN DecimalZero(1)
            ELSE IF NatLe(b, a) THEN Normal(x.s, NatSub(a, b), exponent)
            ELSE Normal(y.s, NatSub(b, a), exponent)
        Combine(u, v, exponent) ==
            IF x.s # y.s
            THEN Difference(Scaled(u, exponent), Scaled(v, exponent), exponent)
            ELSE Normal(x.s, NatAdd(Scaled(u, exponent), Scaled(v, exponent)), exponent)
        Operands(u, v) == Combine(u, v, Min(LastExponent(u), LastExponent(v)))
        \* 2 in x.minus(-y), 1 in x.plus(y)
        Words(extra) ==
            IF x.e < y.e THEN Operands(Cut(x, y, extra), y)
            ELSE Operands(x, Cut(y, x, extra))
    IN
    IF ~IsFinite(x) \/ ~IsFinite(y)
    THEN IF x.s = NaN \/ y.s = NaN THEN DecimalNaN
         ELSE IF ~IsFinite(x)
         THEN IF IsFinite(y) \/ x.s = y.s THEN x ELSE DecimalNaN
         ELSE y
    ELSE IF x.s # y.s
    THEN \* x.minus(-y)
         IF IsZero(x) /\ IsZero(y) THEN DecimalZero(1)
         ELSE IF IsZero(x) THEN y
         ELSE IF IsZero(y) THEN x
         ELSE Words(2)
    ELSE IF IsZero(y) THEN x
    ELSE IF IsZero(x) THEN y
    ELSE Words(1)

IsSmall(x) == "dec" \in DOMAIN x

RECURSIVE sumFields(_, _, _)
sumFields(x, values, i) ==
    IF i > Len(values) \/ x.s = NaN THEN x
    ELSE sumFields(plusFields(x, Fields(values[i])), values, i + 1)

RECURSIVE sumSmall(_, _)
sumSmall(values, i) == IF i = 0 THEN 0 ELSE sumSmall(values, i - 1) + values[i].dec

\* Decimal.sum(...values) for at least one value: plus from left to right
\* until the sum is NaN, then one rounding
DecimalSum(values) ==
    IF \A i \in 1..Len(values) : IsSmall(values[i]) /\ Abs(values[i].dec) < 1000000
    THEN Dec(sumSmall(values, Len(values)))
    ELSE Canonical(finalise(sumFields(Fields(values[1]), values, 2)))

\* P.times
timesFields(x, y) ==
    LET s == IF x.s = NaN \/ y.s = NaN THEN NaN ELSE x.s * y.s IN
    IF ~IsFinite(x) \/ IsZero(x) \/ ~IsFinite(y) \/ IsZero(y)
    THEN IF s = NaN \/ (IsFinite(x) /\ IsZero(x) /\ ~IsFinite(y))
                    \/ (IsFinite(y) /\ IsZero(y) /\ ~IsFinite(x))
         THEN DecimalNaN
         ELSE IF ~IsFinite(x) \/ ~IsFinite(y) THEN DecimalInfinity(s)
         ELSE DecimalZero(s)
    ELSE finalise(Normal(s, NatMul(x.d, y.d),
                         LastExponent(x) + LastExponent(y)))

\* Decimal.mul(x, y) and x.mul(y)
DecimalMul(x, y) ==
    IF IsSmall(x) /\ IsSmall(y) /\ Abs(x.dec) < 30000 /\ Abs(y.dec) < 30000
           /\ x.dec * y.dec # 0
    THEN Dec(x.dec * y.dec)
    ELSE Canonical(timesFields(Fields(x), Fields(y)))

\* the long division of divide: the digits of a / b from the first one that
\* can differ from 0, until 21 significant digits are known or the division
\* ends; i is the number of digits of a (then of zeros) brought down
RECURSIVE LongDivision(_, _, _, _, _)
LongDivision(a, b, i, remainder, quotient) ==
    IF Len(Trim(quotient)) > precision \/ (i >= Len(a) /\ remainder = <<>>)
    THEN [quotient |-> Trim(quotient), brought |-> i]
    ELSE LET r == Trim(remainder \o <<IF i + 1 <= Len(a) THEN a[i + 1] ELSE 0>>)
             k == CHOOSE n \in 0..9 :
                      NatLe(NatScale(b, n), r) /\ ~NatLe(NatScale(b, n + 1), r)
         IN  LongDivision(a, b, i + 1, NatSub(r, NatScale(b, k)), Append(quotient, k))

\* divide(x, y), as P.div calls it
divideFields(x, y) ==
    LET sign == IF x.s = y.s THEN 1 ELSE 0 - 1 IN
    IF ~IsFinite(x) \/ IsZero(x) \/ ~IsFinite(y) \/ IsZero(y)
    THEN IF x.s = NaN \/ y.s = NaN
              \/ (IF IsFinite(x) THEN IsFinite(y) /\ IsZero(x) /\ IsZero(y)
                  ELSE ~IsFinite(y))
         THEN DecimalNaN
         ELSE IF (IsFinite(x) /\ IsZero(x)) \/ ~IsFinite(y) THEN DecimalZero(sign)
         ELSE DecimalInfinity(sign)
    ELSE LET skipped == Len(y.d) - 1
             prefix  == [i \in 1..skipped |-> IF i <= Len(x.d) THEN x.d[i] ELSE 0]
             q == LongDivision(x.d, y.d, skipped, Trim(prefix), <<>>)
         IN  finalise(Normal(sign, q.quotient,
                             Len(x.d) - q.brought + LastExponent(x) - LastExponent(y)))

\* x.div(y), x.dividedBy(y)
dividedBy(x, y) == Canonical(divideFields(Fields(x), Fields(y)))

\* x.negated()
negated(x) ==
    LET f == Fields(x) IN
    Canonical(Decimal(IF f.s = NaN THEN NaN ELSE 0 - f.s, f.e, f.d))

\* Decimal.prototype.eq: cmp is 0, which it never is for NaN and always is
\* for two zeros
DecEq(a, b) ==
    LET x == Fields(a)
        y == Fields(b)
    IN  /\ x.s # NaN
        /\ y.s # NaN
        /\ \/ IsFinite(x) /\ IsFinite(y) /\ IsZero(x) /\ IsZero(y)
           \/ x = y

\* metrics.ts: average(...values)
average(values) ==
    IF Len(values) = 0 THEN Dec(0)
    ELSE dividedBy(DecimalSum(values), Dec(Len(values)))

-----------------------------------------------------------------------------
(* periods.ts *)

Month(m, y) == [month |-> m, year |-> y]

Quarter(q, y) == [quarter |-> q, year |-> y]

Year(y) == [year |-> y]

isMonth(period) == "month" \in DOMAIN period

isQuarter(period) == "quarter" \in DOMAIN period

isYear(period) == ~isMonth(period) /\ ~isQuarter(period)

\* periodKey with the quarter written like a month: two digits, no offset
periodKeyNoOffset(period) ==
    IF isMonth(period)
    THEN NumberToString(period.year) \o <<"-">>
             \o PadStart(NumberToString(period.month), 2, "0")
    ELSE IF isQuarter(period)
    THEN NumberToString(period.year) \o <<"-">>
             \o PadStart(NumberToString(period.quarter), 2, "0")
    ELSE NumberToString(period.year)

periodKey(period) ==
    IF isMonth(period)
    THEN NumberToString(period.year) \o <<"-">>
             \o PadStart(NumberToString(period.month), 2, "0")
    ELSE IF isQuarter(period)
    THEN NumberToString(period.year) \o <<"-">>
             \o NumberToString(Add(period.quarter, 32))
    ELSE NumberToString(period.year)

periodFromKey(key) ==
    IF Len(key) = 4 THEN Year(parseInt(key))
    ELSE LET parts == Split(key, "-")
             year  == parseInt(parts[1])
             \* destructuring a one-element array leaves month undefined, which
             \* compares and subtracts like NaN
             month == IF Len(parts) >= 2 THEN parseInt(parts[2]) ELSE NaN
         IN  IF Le(month, 12) THEN Month(month, year)
             ELSE Quarter(Sub(month, 32), year)

periodSorter(a, b) ==
    IF StrictEq(a.year, b.year) /\ isMonth(a) /\ isMonth(b) THEN Sub(a.month, b.month)
    ELSE IF StrictEq(a.year, b.year) /\ isMonth(a) /\ isQuarter(b)
    THEN Sub(a.month, Mul(b.quarter, 3))
    ELSE IF StrictEq(a.year, b.year) /\ isMonth(a) THEN 0 - 1
    ELSE IF StrictEq(a.year, b.year) /\ isQuarter(a) /\ isMonth(b)
    THEN Sub(Mul(a.quarter, 3), b.month)
    ELSE IF StrictEq(a.year, b.year) /\ isQuarter(a) /\ isQuarter(b)
    THEN Sub(a.quarter, b.quarter)
    ELSE IF StrictEq(a.year, b.year) /\ isQuarter(a) THEN 1
    ELSE Sub(a.year, b.year)

getMonthsForQuarter(period) ==
    [i \in 1..3 |-> Month(Add(Sub(Mul(3, period.quarter), 2), i - 1), period.year)]

getMonthsForYear(year) ==
    [i \in 1..12 |-> Month(i, year.year)]

-----------------------------------------------------------------------------
(* Array.prototype.sort as V8 runs it (TimSort): the array is cut into runs  *)
(* of at least ComputeMinRunLength elements, each a natural run (reversed    *)
(* when descending) extended by binary insertion, and the pending runs are   *)
(* merged, galloping included.  Below 64 elements the minimal run length is  *)
(* the array's length, so there is one run and no merge.  Indices into the   *)
(* work array are V8's, counted from 0: element i is workArray[i + 1].       *)

\* the comparator's result as the sort reads it: NaN counts as 0
SortCompare(a, b) ==
    LET Order(v) == IF v = NaN THEN 0 ELSE v IN
    Order(periodSorter(a, b))

Reverse(s) == [i \in 1..Len(s) |-> s[Len(s) + 1 - i]]

\* the end of the run a starts with: the loop over idx stops at the first
\* element that breaks the order, or at the end of the array
RunEnd(a, idx, isDescending) ==
    LET Ends(order) == (isDescending /\ order >= 0) \/ (~isDescending /\ order < 0)
        First(breaks) ==
            IF breaks = {} THEN Len(a)
            ELSE (CHOOSE i \in breaks : \A j \in breaks : i <= j) - 1
    IN  First({i \in idx..Len(a) : Ends(SortCompare(a[i], a[i - 1]))})

\* CountAndMakeRun: <<the array with its first run made ascending, the run's length>>
CountAndMakeRun(a) ==
    LET Made(isDescending, runLength) ==
            IF isDescending
            THEN <<Reverse(SubSeq(a, 1, runLength)) \o SubSeq(a, runLength + 1, Len(a)),
                   runLength>>
            ELSE <<a, runLength>>
        Run(isDescending) == Made(isDescending, RunEnd(a, 3, isDescending))
    IN  IF Len(a) < 2 THEN <<a, Len(a)>>
        ELSE Run(SortCompare(a[2], a[1]) < 0)

RECURSIVE BinarySearch(_, _, _, _)
BinarySearch(a, pivot, left, right) ==
    IF left >= right THEN left
    ELSE LET mid == left + ((right - left) \div 2) IN
         IF SortCompare(pivot, a[mid]) < 0
         THEN BinarySearch(a, pivot, left, mid)
         ELSE BinarySearch(a, pivot, mid + 1, right)

\* BinaryInsertionSort: a[1..start-1] is sorted, place a[start..Len(a)]
RECURSIVE BinaryInsertionSort(_, _)
BinaryInsertionSort(a, start) ==
    LET Insert(pivot, left) ==
            SubSeq(a, 1, left - 1) \o <<pivot>> \o SubSeq(a, left, start - 1)
                \o SubSeq(a, start + 1, Len(a))
    IN  IF start > Len(a) THEN a
        ELSE BinaryInsertionSort(Insert(a[start], BinarySearch(a, a[start], 1, start)),
                                 start + 1)

kMinGallopWins == 7

\* r becomes 1 if any 1 bit is shifted off
RECURSIVE ComputeMinRunLength(_, _)
ComputeMinRunLength(n, r) ==
    IF n >= 64 THEN ComputeMinRunLength(n \div 2, IF n % 2 = 1 THEN 1 ELSE r)
    ELSE n + r

\* Copy(source, srcPos, target, dstPos, length): the target after the copy
Copy(source, srcPos, target, dstPos, length) ==
    SubSeq(target, 1, dstPos) \o SubSeq(source, srcPos + 1, srcPos + length)
        \o SubSeq(target, dstPos + length + 1, Len(target))

\* the test both gallops make on an element: GallopLeft asks
\* order(element, key) < 0, GallopRight asks order(key, element) >= 0
Precedes(element, key, isLeft) ==
    LET Test(order) == IF isLeft THEN order < 0 ELSE order >= 0 IN
    Test(SortCompare(IF isLeft THEN element ELSE key, IF isLeft THEN key ELSE element))

\* the galloping loop: offsets 1, 3, 7, ... from hint, to the right until an
\* element no longer precedes the key, or to the left until one does
RECURSIVE GallopOffsets(_, _, _, _, _, _, _, _, _)
GallopOffsets(array, key, base, hint, isLeft, toRight, maxOfs, lastOfs, offset) ==
    IF offset >= maxOfs THEN <<lastOfs, offset>>
    ELSE IF Precedes(IF toRight THEN array[base + hint + offset + 1]
                     ELSE array[base + hint - offset + 1],
                     key, isLeft) # toRight
    THEN <<lastOfs, offset>>
    ELSE GallopOffsets(array, key, base, hint, isLeft, toRight, maxOfs,
                       offset, 2 * offset + 1)

\* the binary search that ends both gallops
RECURSIVE GallopSearch(_, _, _, _, _, _)
GallopSearch(array, key, base, isLeft, lastOfs, offset) ==
    IF lastOfs >= offset THEN offset
    ELSE LET m == lastOfs + ((offset - lastOfs) \div 2) IN
         IF Precedes(array[base + m + 1], key, isLeft)
         THEN GallopSearch(array, key, base, isLeft, m + 1, offset)
         ELSE GallopSearch(array, key, base, isLeft, lastOfs, m)

\* both gallops: to the right when the element at hint precedes the key, to
\* the left otherwise, then the binary search between the last two offsets
Gallop(array, key, base, length, hint, isLeft) ==
    LET Search(toRight, maxOfs, found) ==
            GallopSearch(array, key, base, isLeft,
                         IF toRight THEN found[1] + hint + 1
                         ELSE hint - Min(found[2], maxOfs) + 1,
                         IF toRight THEN Min(found[2], maxOfs) + hint
                         ELSE hint - found[1])
        Offsets(toRight, maxOfs) ==
            Search(toRight, maxOfs,
                   GallopOffsets(array, key, base, hint, isLeft, toRight, maxOfs, 0, 1))
        Side(toRight) == Offsets(toRight, IF toRight THEN length - hint ELSE hint + 1)
    IN  Side(Precedes(array[base + hint + 1], key, isLeft))

\* the offset k with array[base + k - 1] < key <= array[base + k]
GallopLeft(array, key, base, length, hint) ==
    Gallop(array, key, base, length, hint, TRUE)

\* the offset k with array[base + k - 1] <= key < array[base + k]
GallopRight(array, key, base, length, hint) ==
    Gallop(array, key, base, length, hint, FALSE)

Leave(m, label) == [m EXCEPT !.exit = label]

\* the straightforward loop of a merge ends at a label or once one run has
\* won minGallop times in a row
LinearDone(m) ==
    m.exit # "none" \/ m.nofWinsA >= m.minGallop \/ m.nofWinsB >= m.minGallop

\* MergeLow, one pass of the straightforward loop
MergeLowStep(m) ==
    IF SortCompare(m.workArray[m.cursorB + 1], m.tempArray[m.cursorTemp + 1]) < 0
    THEN LET n == [m EXCEPT !.workArray[m.dest + 1] = m.workArray[m.cursorB + 1],
                            !.dest = @ + 1, !.cursorB = @ + 1,
                            !.nofWinsB = @ + 1, !.lengthB = @ - 1, !.nofWinsA = 0]
         IN  IF n.lengthB = 0 THEN Leave(n, "Succeed") ELSE n
    ELSE LET n == [m EXCEPT !.workArray[m.dest + 1] = m.tempArray[m.cursorTemp + 1],
                            !.dest = @ + 1, !.cursorTemp = @ + 1,
                            !.nofWinsA = @ + 1, !.lengthA = @ - 1, !.nofWinsB = 0]
         IN  IF n.lengthA = 1 THEN Leave(n, "CopyB") ELSE n

\* MergeLow, the straightforward loop: at most `passes` passes, run one after
\* the other (the first half of them, then the rest)
RECURSIVE MergeLowLinear(_, _)
MergeLowLinear(m, passes) ==
    IF passes = 0 \/ LinearDone(m) THEN m
    ELSE IF passes = 1 THEN MergeLowStep(m)
    ELSE MergeLowLinear(MergeLowLinear(m, passes \div 2), passes - (passes \div 2))

\* MergeLow, the galloping loop, its steps in the order of the code: the
\* elements of A that go before B's first (GallopRight), B's first, the
\* elements of B that go before A's first (GallopLeft), A's first
RECURSIVE MergeLowGallop(_, _)
MergeLowGallop(m, firstIteration) ==
    LET TakeA(s) ==
            IF s.lengthA = 1 THEN Leave(s, "CopyB") ELSE MergeLowGallop(s, FALSE)
        RunB(s, nofWinsB) ==
            IF nofWinsB > 0 /\ s.lengthB = 0 THEN Leave(s, "Succeed")
            ELSE TakeA([s EXCEPT !.workArray[s.dest + 1] = s.tempArray[s.cursorTemp + 1],
                                 !.dest = @ + 1, !.cursorTemp = @ + 1, !.lengthA = @ - 1])
        WinsB(s, nofWinsB) ==
            RunB([s EXCEPT !.nofWinsB = nofWinsB,
                           !.workArray = Copy(@, s.cursorB, @, s.dest, nofWinsB),
                           !.dest = @ + nofWinsB, !.cursorB = @ + nofWinsB,
                           !.lengthB = @ - nofWinsB],
                 nofWinsB)
        TakeB(s) ==
            IF s.lengthB = 0 THEN Leave(s, "Succeed")
            ELSE WinsB(s, GallopLeft(s.workArray, s.tempArray[s.cursorTemp + 1],
                                     s.cursorB, s.lengthB, 0))
        RunA(s, nofWinsA) ==
            IF nofWinsA > 0 /\ s.lengthA = 1 THEN Leave(s, "CopyB")
            ELSE IF nofWinsA > 0 /\ s.lengthA = 0 THEN Leave(s, "Succeed")
            ELSE TakeB([s EXCEPT !.workArray[s.dest + 1] = s.workArray[s.cursorB + 1],
                                 !.dest = @ + 1, !.cursorB = @ + 1, !.lengthB = @ - 1])
        WinsA(nofWinsA) ==
            RunA([m EXCEPT !.minGallop = Max(1, @ - 1),
                           !.nofWinsA = nofWinsA,
                           !.workArray = Copy(m.tempArray, m.cursorTemp, @, m.dest, nofWinsA),
                           !.dest = @ + nofWinsA, !.cursorTemp = @ + nofWinsA,
                           !.lengthA = @ - nofWinsA],
                 nofWinsA)
    IN  IF ~(m.nofWinsA >= kMinGallopWins \/ m.nofWinsB >= kMinGallopWins \/ firstIteration)
        THEN m
        ELSE WinsA(GallopRight(m.tempArray, m.workArray[m.cursorB + 1],
                               m.cursorTemp, m.lengthA, 0))

\* MergeLow, the outer loop: the two modes in turn until a label is reached
RECURSIVE MergeLowLoop(_)
MergeLowLoop(m) ==
    LET AfterGallop(gallop) ==
            IF gallop.exit # "none" THEN gallop
            ELSE MergeLowLoop([gallop EXCEPT !.minGallop = @ + 1])
        AfterLinear(linear) ==
            IF linear.exit # "none" THEN linear
            ELSE AfterGallop(MergeLowGallop([linear EXCEPT !.minGallop = @ + 1], TRUE))
    IN  AfterLinear(MergeLowLinear([m EXCEPT !.nofWinsA = 0, !.nofWinsB = 0],
                                   m.lengthA + m.lengthB))

\* merges run A into the longer run B from the left; the sort state after it
MergeLow(sortState, baseA, lengthA, baseB, lengthB) ==
    LET workArray == sortState.workArray
        start == [workArray  |-> [workArray EXCEPT ![baseA + 1] = workArray[baseB + 1]],
                  tempArray  |-> SubSeq(workArray, baseA + 1, baseA + lengthA),
                  dest       |-> baseA + 1,
                  cursorTemp |-> 0,
                  cursorB    |-> baseB + 1,
                  lengthA    |-> lengthA,
                  lengthB    |-> lengthB - 1,
                  minGallop  |-> sortState.minGallop,
                  nofWinsA   |-> 0,
                  nofWinsB   |-> 0,
                  exit       |-> "none"]
        Merged(m) ==
            [sortState EXCEPT
                !.workArray =
                    IF m.exit = "Succeed"
                    THEN Copy(m.tempArray, m.cursorTemp, m.workArray, m.dest, m.lengthA)
                    ELSE [Copy(m.workArray, m.cursorB, m.workArray, m.dest, m.lengthB)
                              EXCEPT ![m.dest + m.lengthB + 1] = m.tempArray[m.cursorTemp + 1]],
                !.minGallop = m.minGallop]
    IN  Merged(IF lengthB - 1 = 0 THEN Leave(start, "Succeed")
               ELSE IF lengthA = 1 THEN Leave(start, "CopyB")
               ELSE MergeLowLoop(start))

\* MergeHigh, one pass of the straightforward loop, from the right
MergeHighStep(m) ==
    IF SortCompare(m.tempArray[m.cursorTemp + 1], m.workArray[m.cursorA + 1]) < 0
    THEN LET n == [m EXCEPT !.workArray[m.dest + 1] = m.workArray[m.cursorA + 1],
                            !.dest = @ - 1, !.cursorA = @ - 1,
                            !.nofWinsA = @ + 1, !.lengthA = @ - 1, !.nofWinsB = 0]
         IN  IF n.lengthA = 0 THEN Leave(n, "Succeed") ELSE n
    ELSE LET n == [m EXCEPT !.workArray[m.dest + 1] = m.tempArray[m.cursorTemp + 1],
                            !.dest = @ - 1, !.cursorTemp = @ - 1,
                            !.nofWinsB = @ + 1, !.lengthB = @ - 1, !.nofWinsA = 0]
         IN  IF n.lengthB = 1 THEN Leave(n, "CopyA") ELSE n

RECURSIVE MergeHighLinear(_, _)
MergeHighLinear(m, passes) ==
    IF passes = 0 \/ LinearDone(m) THEN m
    ELSE IF passes = 1 THEN MergeHighStep(m)
    ELSE MergeHighLinear(MergeHighLinear(m, passes \div 2), passes - (passes \div 2))

\* MergeHigh, the galloping loop, its steps in the order of the code: the
\* elements of A that go after B's last (GallopRight), B's last, the
\* elements of B that go after A's last (GallopLeft), A's last
RECURSIVE MergeHighGallop(_, _)
MergeHighGallop(m, firstIteration) ==
    LET TakeA(s) ==
            IF s.lengthA = 0 THEN Leave(s, "Succeed") ELSE MergeHighGallop(s, FALSE)
        RunB(s, nofWinsB) ==
            IF nofWinsB > 0 /\ s.lengthB = 1 THEN Leave(s, "CopyA")
            ELSE IF nofWinsB > 0 /\ s.lengthB = 0 THEN Leave(s, "Succeed")
            ELSE TakeA([s EXCEPT !.workArray[s.dest + 1] = s.workArray[s.cursorA + 1],
                                 !.dest = @ - 1, !.cursorA = @ - 1, !.lengthA = @ - 1])
        WinsB(s, nofWinsB) ==
            RunB([s EXCEPT !.nofWinsB = nofWinsB,
                           !.workArray = Copy(s.tempArray, s.cursorTemp - nofWinsB + 1,
                                              @, s.dest - nofWinsB + 1, nofWinsB),
                           !.dest = @ - nofWinsB, !.cursorTemp = @ - nofWinsB,
                           !.lengthB = @ - nofWinsB],
                 nofWinsB)
        TakeB(s) ==
            IF s.lengthB = 1 THEN Leave(s, "CopyA")
            ELSE WinsB(s, s.lengthB - GallopLeft(s.tempArray, s.workArray[s.cursorA + 1],
                                                 0, s.lengthB, s.lengthB - 1))
        RunA(s, nofWinsA) ==
            IF nofWinsA > 0 /\ s.lengthA = 0 THEN Leave(s, "Succeed")
            ELSE TakeB([s EXCEPT !.workArray[s.dest + 1] = s.tempArray[s.cursorTemp + 1],
                                 !.dest = @ - 1, !.cursorTemp = @ - 1, !.lengthB = @ - 1])
        WinsA(nofWinsA) ==
            RunA([m EXCEPT !.minGallop = Max(1, @ - 1),
                           !.nofWinsA = nofWinsA,
                           !.workArray = Copy(@, m.cursorA - nofWinsA + 1,
                                              @, m.dest - nofWinsA + 1, nofWinsA),
                           !.dest = @ - nofWinsA, !.cursorA = @ - nofWinsA,
                           !.lengthA = @ - nofWinsA],
                 nofWinsA)
    IN  IF ~(m.nofWinsA >= kMinGallopWins \/ m.nofWinsB >= kMinGallopWins \/ firstIteration)
        THEN m
        ELSE WinsA(m.lengthA - GallopRight(m.workArray, m.tempArray[m.cursorTemp + 1],
                                           m.baseA, m.lengthA, m.lengthA - 1))

RECURSIVE MergeHighLoop(_)
MergeHighLoop(m) ==
    LET AfterGallop(gallop) ==
            IF gallop.exit # "none" THEN gallop
            ELSE MergeHighLoop([gallop EXCEPT !.minGallop = @ + 1])
        AfterLinear(linear) ==
            IF linear.exit # "none" THEN linear
            ELSE AfterGallop(MergeHighGallop([linear EXCEPT !.minGallop = @ + 1], TRUE))
    IN  AfterLinear(MergeHighLinear([m EXCEPT !.nofWinsA = 0, !.nofWinsB = 0],
                                    m.lengthA + m.lengthB))

\* merges run B into the longer run A from the right; the sort state after it
MergeHigh(sortState, baseA, lengthA, baseB, lengthB) ==
    LET workArray == sortState.workArray
        last  == baseB + lengthB - 1
        start == [workArray  |-> [workArray EXCEPT
                                     ![last + 1] = workArray[baseA + lengthA]],
                  tempArray  |-> SubSeq(workArray, baseB + 1, baseB + lengthB),
                  dest       |-> last - 1,
                  cursorTemp |-> lengthB - 1,
                  cursorA    |-> baseA + lengthA - 2,
                  baseA      |-> baseA,
                  lengthA    |-> lengthA - 1,
                  lengthB    |-> lengthB,
                  minGallop  |-> sortState.minGallop,
                  nofWinsA   |-> 0,
                  nofWinsB   |-> 0,
                  exit       |-> "none"]
        Merged(m) ==
            [sortState EXCEPT
                !.workArray =
                    IF m.exit = "Succeed"
                    THEN Copy(m.tempArray, 0, m.workArray, m.dest - (m.lengthB - 1),
                              m.lengthB)
                    ELSE [Copy(m.workArray, m.cursorA - m.lengthA + 1,
                               m.workArray, m.dest - m.lengthA + 1, m.lengthA)
                              EXCEPT ![m.dest - m.lengthA + 1] = m.tempArray[m.cursorTemp + 1]],
                !.minGallop = m.minGallop]
    IN  Merged(IF lengthA - 1 = 0 THEN Leave(start, "Succeed")
               ELSE IF lengthB = 1 THEN Leave(start, "CopyA")
               ELSE MergeHighLoop(start))

\* merges the pending runs i and i + 1 (counted from 0): the elements of A
\* that are in place already (before B's first, GallopRight) and those of B
\* (after A's last, GallopLeft) stay out of the merge
\* MergeAt, once the two gallops have cut the runs: k elements of run A are
\* in place already, keptB elements of run B are left to merge
MergeRuns(popped, baseA, lengthA, baseB, k, keptB) ==
    IF lengthA - k = 0 THEN popped
    ELSE IF keptB = 0 THEN popped
    ELSE IF lengthA - k <= keptB
    THEN MergeLow(popped, baseA + k, lengthA - k, baseB, keptB)
    ELSE MergeHigh(popped, baseA + k, lengthA - k, baseB, keptB)

MergeAt(sortState, i) ==
    LET runs    == sortState.pendingRuns
        baseA   == runs[i + 1].base
        lengthA == runs[i + 1].length
        baseB   == runs[i + 2].base
        lengthB == runs[i + 2].length
        popped  == [sortState EXCEPT
                       !.pendingRuns =
                           SubSeq(runs, 1, i)
                               \o <<[base |-> baseA, length |-> lengthA + lengthB]>>
                               \o SubSeq(runs, i + 3, Len(runs))]
        workArray == sortState.workArray
    IN  MergeRuns(popped, baseA, lengthA, baseB,
                  GallopRight(workArray, workArray[baseB + 1], baseA, lengthA, 0),
                  GallopLeft(workArray, workArray[baseA + lengthA], baseB, lengthB,
                             lengthB - 1))

\* run_length(n - 2) > run_length(n - 1) + run_length(n), n counted from 0
RunInvariantEstablished(pendingRuns, n) ==
    IF n < 2 THEN TRUE
    ELSE pendingRuns[n - 1].length > pendingRuns[n].length + pendingRuns[n + 1].length

\* MergeCollapse, the test of its loop: the place to merge at while the
\* invariant fails at the top of the stack, NoMerge once it holds
NoMerge == 0 - 1

CollapseAt(runs) ==
    LET n == Len(runs) - 2 IN
    IF Len(runs) <= 1 THEN NoMerge
    ELSE IF ~RunInvariantEstablished(runs, n + 1) \/ ~RunInvariantEstablished(runs, n)
    THEN IF runs[n].length < runs[n + 2].length THEN n - 1 ELSE n
    ELSE IF runs[n + 1].length <= runs[n + 2].length THEN n
    ELSE NoMerge

RECURSIVE MergeCollapse(_)
MergeCollapse(sortState) ==
    IF CollapseAt(sortState.pendingRuns) = NoMerge THEN sortState
    ELSE MergeCollapse(MergeAt(sortState, CollapseAt(sortState.pendingRuns)))

RECURSIVE MergeForceCollapse(_)
MergeForceCollapse(sortState) ==
    LET runs == sortState.pendingRuns
        n    == Len(runs) - 2
    IN  IF Len(runs) <= 1 THEN sortState
        ELSE MergeForceCollapse(
                 MergeAt(sortState,
                         IF n > 0 /\ runs[n].length < runs[n + 2].length
                         THEN n - 1 ELSE n))

RECURSIVE TimSortRuns(_, _, _, _)

\* the loop of ArrayTimSortImpl, its end: the run made is pushed, the pending
\* runs are collapsed and the loop goes on after the run
PushRun(sortState, low, remaining, minRunLength, made, currentRunLength) ==
    TimSortRuns(MergeCollapse(
                    [sortState EXCEPT
                        !.workArray = SubSeq(sortState.workArray, 1, low) \o made,
                        !.pendingRuns =
                            Append(@, [base |-> low, length |-> currentRunLength])]),
                low + currentRunLength, remaining - currentRunLength, minRunLength)

\* the loop of ArrayTimSortImpl, its middle: a run shorter than the minimal
\* run length is extended to forcedRunLength by binary insertion
ExtendRun(sortState, low, remaining, minRunLength, run, forcedRunLength) ==
    PushRun(sortState, low, remaining, minRunLength,
            IF run[2] < minRunLength
            THEN BinaryInsertionSort(SubSeq(run[1], 1, forcedRunLength), run[2] + 1)
                     \o SubSeq(run[1], forcedRunLength + 1, remaining)
            ELSE run[1],
            IF run[2] < minRunLength THEN forcedRunLength ELSE run[2])

\* the loop of ArrayTimSortImpl: the next run is made, extended to the
\* minimal run length, pushed, and the pending runs are collapsed
TimSortRuns(sortState, low, remaining, minRunLength) ==
    IF remaining = 0 THEN sortState
    ELSE ExtendRun(sortState, low, remaining, minRunLength,
                   CountAndMakeRun(SubSeq(sortState.workArray, low + 1, low + remaining)),
                   Min(minRunLength, remaining))

ArrayTimSortImpl(a) ==
    MergeForceCollapse(
        TimSortRuns([workArray |-> a, pendingRuns |-> <<>>, minGallop |-> kMinGallopWins],
                    0, Len(a), ComputeMinRunLength(Len(a), 0))).workArray

ArraySort(a) ==
    IF Len(a) < 2 THEN a ELSE ArrayTimSortImpl(a)

-----------------------------------------------------------------------------
(* Map and Set: sequences of entries in insertion order *)

MapHas(map, key) == \E i \in 1..Len(map) : map[i].key = key

MapGet(map, key) ==
    IF MapHas(map, key)
    THEN map[CHOOSE i \in 1..Len(map) : map[i].key = key].value
    ELSE Undefined

\* Map.prototype.set: an existing key keeps its place, a new key goes last
MapSet(map, key, value) ==
    IF MapHas(map, key)
    THEN [i \in 1..Len(map) |->
              IF map[i].key = key THEN [key |-> key, value |-> value] ELSE map[i]]
    ELSE Append(map, [key |-> key, value |-> value])

MapDelete(map, key) == SelectSeq(map, LAMBDA e : e.key # key)

MapKeys(map) == [i \in 1..Len(map) |-> map[i].key]

SeqHas(s, x) == \E i \in 1..Len(s) : s[i] = x

\* new Set(array) / Set.prototype.add: first occurrences, in order
RECURSIVE Distinct(_)
Distinct(s) ==
    IF Len(s) < 2 THEN s
    ELSE LET front == Distinct(SubSeq(s, 1, Len(s) \div 2))
             back  == Distinct(SubSeq(s, Len(s) \div 2 + 1, Len(s)))
         IN  front \o SelectSeq(back, LAMBDA x : ~SeqHas(front, x))

SetAdd(s, x) == IF SeqHas(s, x) THEN s ELSE Append(s, x)

SetDelete(s, x) == SelectSeq(s, LAMBDA e : e # x)

-----------------------------------------------------------------------------
(* Configurations *)

\* a metric without the compute property
NoCompute == [kind |-> "none"]

\* a metric without the aggregate property
NoAggregate == [kind |-> "none"]

\* aggregate: "first" | "last" | "average" | "sum"
Named(kind) == [kind |-> kind]

\* aggregate: (table, includedPeriods) =>
\*   Decimal.sum(...includedPeriods.map((x) => Decimal.mul(
\*       table.getValue(weight, x) ?? new Decimal(0),
\*       table.getValue(rate, x) ?? new Decimal(0))))
\*     .div(average(...includedPeriods.map(
\*       (x) => table.getValue(weight, x) ?? new Decimal(0))))
WeightedBy(weight, rate) == [kind |-> "function", weight |-> weight, rate |-> rate]

\* compute: (table, period, currentValue) => table.getValue(from, period) ?? currentValue
CopyOf(from) == [kind |-> "copy", from |-> from]

\* compute: (table, period, currentValue) => isMonth(period)
\*   ? (period.month === 1 ? currentValue
\*        : table.getValue(from, {month: period.month - 1, year: period.year}))
\*   : undefined
PreviousOf(from) == [kind |-> "previous", from |-> from]

\* compute: (table, period) => { const a = table.getValue(first, period);
\*   const b = table.getValue(second, period);
\*   if (a && b) return churnedMRR({beginningMRR: a, churnRate: b}) }
ChurnedOf(first, second) == [kind |-> "churnedMRR", first |-> first, second |-> second]

\* the same with expansionMRR({beginningMRR: a, expansionRate: b})
ExpansionOf(first, second) == [kind |-> "expansionMRR", first |-> first, second |-> second]

\* compute: (table, period) => { the four metrics read at the period;
\*   if (all four) return endingMRR({beginningMRR, newBusinessMRR, churnedMRR, expansionMRR}) }
EndingOf(beginning, newBusiness, churned, expansion) ==
    [kind |-> "endingMRR", beginning |-> beginning, newBusiness |-> newBusiness,
     churned |-> churned, expansion |-> expansion]

\* the configuration of metrics-table.test.ts
TestConfiguration ==
    [metrics |->
        << [name |-> "beginningMRR", compute |-> NoCompute, aggregate |-> Named("sum")],
           [name |-> "endingMRR", compute |-> CopyOf("beginningMRR"), aggregate |-> NoAggregate],
           [name |-> "anotherMetric", compute |-> NoCompute, aggregate |-> NoAggregate] >>,
     aggregates |-> [quarter |-> TRUE, year |-> TRUE]]

\* the same metrics with the computed ones declared before the metric they read
ChainConfiguration ==
    [metrics |->
        << [name |-> "endingMRR", compute |-> CopyOf("beginningMRR"), aggregate |-> NoAggregate],
           [name |-> "beginningMRR", compute |-> CopyOf("anotherMetric"), aggregate |-> Named("sum")],
           [name |-> "anotherMetric", compute |-> NoCompute, aggregate |-> NoAggregate] >>,
     aggregates |-> [quarter |-> TRUE, year |-> TRUE]]

\* beginningMRR carried over from the endingMRR of the previous month and
\* aggregated by first, as in OrganizationMetricsConfiguration; endingMRR
\* computed from beginningMRR as in the tests and aggregated by last
CarryConfiguration ==
    [metrics |->
        << [name |-> "beginningMRR", compute |-> PreviousOf("endingMRR"),
            aggregate |-> Named("first")],
           [name |-> "endingMRR", compute |-> CopyOf("beginningMRR"), aggregate |-> Named("last")],
           [name |-> "anotherMetric", compute |-> NoCompute, aggregate |-> Named("sum")] >>,
     aggregates |-> [quarter |-> TRUE, year |-> TRUE]]

\* every metric computed from another one: endingMRR and beginningMRR read a
\* metric declared after them, anotherMetric reads one declared before it
OrderConfiguration ==
    [metrics |->
        << [name |-> "endingMRR", compute |-> CopyOf("beginningMRR"), aggregate |-> NoAggregate],
           [name |-> "beginningMRR", compute |-> CopyOf("anotherMetric"), aggregate |-> Named("sum")],
           [name |-> "anotherMetric", compute |-> CopyOf("beginningMRR"),
            aggregate |-> NoAggregate] >>,
     aggregates |-> [quarter |-> TRUE, year |-> TRUE]]

\* the configuration of the tests with beginningMRR aggregated by average
AverageConfiguration ==
    [TestConfiguration EXCEPT !.metrics[1].aggregate = Named("average")]

\* OrganizationMetricsConfiguration; the compute rule of endingMRR reads its
\* churnedMRR from newBusinessMRR
OrganizationMetricsConfiguration ==
    [metrics |->
        << [name |-> "beginningMRR", compute |-> PreviousOf("endingMRR"),
            aggregate |-> Named("first")],
           [name |-> "churnRate", compute |-> NoCompute,
            aggregate |-> WeightedBy("beginningMRR", "churnRate")],
           [name |-> "expansionRate", compute |-> NoCompute,
            aggregate |-> WeightedBy("beginningMRR", "expansionRate")],
           [name |-> "newBusinessMRR", compute |-> NoCompute, aggregate |-> Named("sum")],
           [name |-> "churnedMRR", compute |-> ChurnedOf("beginningMRR", "churnRate"),
            aggregate |-> NoAggregate],
           [name |-> "expansionMRR", compute |-> ExpansionOf("beginningMRR", "expansionRate"),
            aggregate |-> NoAggregate],
           [name |-> "endingMRR",
            compute |-> EndingOf("beginningMRR", "newBusinessMRR", "newBusinessMRR",
                                 "expansionMRR"),
            aggregate |-> Named("last")] >>,
     aggregates |-> [quarter |-> TRUE, year |-> TRUE]]

\* the configuration of the tests with other aggregation flags
ToggledConfiguration(quarter, year) ==
    [TestConfiguration EXCEPT !.aggregates = [quarter |-> quarter, year |-> year]]

Configurations == {"test", "chain"}

\* the configurations whose compute rules read computed metrics
OrderConfigurations == {"chain", "carry", "order"}

\* the test configuration under each setting of the aggregation flags
ToggleConfigurations == {"test", "quarters", "years", "months"}

configuration ==
    IF cfg = "test" THEN TestConfiguration
    ELSE IF cfg = "chain" THEN ChainConfiguration
    ELSE IF cfg = "carry" THEN CarryConfiguration
    ELSE IF cfg = "order" THEN OrderConfiguration
    ELSE IF cfg = "average" THEN AverageConfiguration
    ELSE IF cfg = "organization" THEN OrganizationMetricsConfiguration
    ELSE IF cfg = "quarters" THEN ToggledConfiguration(TRUE, FALSE)
    ELSE IF cfg = "years" THEN ToggledConfiguration(FALSE, TRUE)
    ELSE ToggledConfiguration(FALSE, FALSE)

MetricNames ==
    [i \in 1..Len(configuration.metrics) |-> configuration.metrics[i].name]

Declared == {MetricNames[i] : i \in 1..Len(MetricNames)}

-----------------------------------------------------------------------------
(* metrics-table.ts: class MetricsTable.  A table is its data; an update in *)
(* progress is [data, updated, thrown], thrown once Unknown metric is       *)
(* raised, after which nothing more of the call runs.                       *)

getValue(d, metric, period) == MapGet(d[metric], periodKey(period))

RECURSIVE AllKeys(_, _)
AllKeys(d, i) ==
    IF i > Len(MetricNames) THEN <<>>
    ELSE MapKeys(d[MetricNames[i]]) \o AllKeys(d, i + 1)

getPeriods(d) ==
    LET keys == Distinct(AllKeys(d, 1)) IN
    ArraySort([i \in 1..Len(keys) |-> periodFromKey(keys[i])])

isAggregate(period) ==
    IF isQuarter(period) THEN configuration.aggregates.quarter
    ELSE IF isYear(period) THEN configuration.aggregates.year
    ELSE FALSE

setValue(t, metric, period, newValue) ==
    IF t.thrown THEN t
    ELSE IF metric \notin DOMAIN t.data THEN [t EXCEPT !.thrown = TRUE]
    ELSE LET oldValue == getValue(t.data, metric, period)
             key      == periodKey(period)
         IN  \* !oldValue || !newValue?.eq(oldValue)
             IF oldValue = Undefined
                  \/ ~(newValue # Undefined /\ DecEq(newValue, oldValue))
             THEN [t EXCEPT
                      !.data[metric] =
                          IF newValue # Undefined THEN MapSet(@, key, newValue)
                          ELSE MapDelete(@, key),
                      !.updated = Append(@, [metric   |-> metric,
                                             period   |-> period,
                                             value    |-> newValue,
                                             oldValue |-> oldValue])]
             ELSE t

\* metrics.ts
endingMRR(beginningMRR, newBusinessMRR, churnedMRR, expansionMRR) ==
    DecimalSum(<<beginningMRR, newBusinessMRR, expansionMRR, churnedMRR>>)

churnedMRR(beginningMRR, churnRate) == negated(DecimalMul(beginningMRR, churnRate))

expansionMRR(beginningMRR, expansionRate) == DecimalMul(beginningMRR, expansionRate)

\* metric.compute(table, period, currentValue)
ApplyCompute(rule, d, period, currentValue) ==
    IF rule.kind = "previous"
    THEN IF isMonth(period)
         THEN IF StrictEq(period.month, 1) THEN currentValue
              ELSE getValue(d, rule.from, Month(Sub(period.month, 1), period.year))
         ELSE Undefined
    ELSE IF rule.kind \in {"churnedMRR", "expansionMRR"}
    THEN LET a == getValue(d, rule.first, period)
             b == getValue(d, rule.second, period)
         IN  IF a = Undefined \/ b = Undefined THEN Undefined
             ELSE IF rule.kind = "churnedMRR" THEN churnedMRR(a, b)
             ELSE expansionMRR(a, b)
    ELSE IF rule.kind = "endingMRR"
    THEN LET beginning   == getValue(d, rule.beginning, period)
             newBusiness == getValue(d, rule.newBusiness, period)
             churned     == getValue(d, rule.churned, period)
             expansion   == getValue(d, rule.expansion, period)
         IN  IF beginning = Undefined \/ newBusiness = Undefined
                  \/ churned = Undefined \/ expansion = Undefined
             THEN Undefined
             ELSE endingMRR(beginning, newBusiness, churned, expansion)
    ELSE LET source == getValue(d, rule.from, period) IN
         IF source = Undefined THEN currentValue ELSE source

\* includedPeriods.map((p) => table.getValue(metric, p) ?? new Decimal(0))
ValuesOrZero(d, metric, includedPeriods) ==
    [i \in 1..Len(includedPeriods) |->
        LET v == getValue(d, metric, includedPeriods[i]) IN
        IF v = Undefined THEN Dec(0) ELSE v]

\* includedPeriods.map((x) => Decimal.mul(table.getValue(weight, x) ?? new Decimal(0),
\*                                        table.getValue(rate, x) ?? new Decimal(0)))
Products(d, weight, rate, includedPeriods) ==
    LET weights == ValuesOrZero(d, weight, includedPeriods)
        rates   == ValuesOrZero(d, rate, includedPeriods)
    IN  [i \in 1..Len(includedPeriods) |-> DecimalMul(weights[i], rates[i])]

\* the switch of computeAggregate
AggregateValue(d, metric, includedPeriods) ==
    IF metric.aggregate.kind = "first" THEN getValue(d, metric.name, includedPeriods[1])
    ELSE IF metric.aggregate.kind = "last"
    THEN getValue(d, metric.name, includedPeriods[Len(includedPeriods)])
    ELSE IF metric.aggregate.kind = "average"
    THEN average(ValuesOrZero(d, metric.name, includedPeriods))
    ELSE IF metric.aggregate.kind = "sum"
    THEN DecimalSum(ValuesOrZero(d, metric.name, includedPeriods))
    ELSE dividedBy(DecimalSum(Products(d, metric.aggregate.weight, metric.aggregate.rate,
                                       includedPeriods)),
                   average(ValuesOrZero(d, metric.aggregate.weight, includedPeriods)))

RECURSIVE computeAggregateFrom(_, _, _, _)
computeAggregateFrom(t, period, includedPeriods, i) ==
    IF t.thrown \/ i > Len(configuration.metrics) THEN t
    ELSE LET metric == configuration.metrics[i] IN
         IF metric.aggregate.kind = "none"
         THEN computeAggregateFrom(t, period, includedPeriods, i + 1)
         ELSE computeAggregateFrom(
                  setValue(t, metric.name, period,
                           AggregateValue(t.data, metric, includedPeriods)),
                  period, includedPeriods, i + 1)

computeAggregate(t, period, includedPeriods) ==
    computeAggregateFrom(t, period, includedPeriods, 1)

\* the compute rules of a period run from the last declared metric to the first
RECURSIVE ComputeMetricsReversed(_, _, _)
ComputeMetricsReversed(t, period, i) ==
    IF t.thrown \/ i > Len(configuration.metrics) THEN t
    ELSE LET metric == configuration.metrics[Len(configuration.metrics) + 1 - i] IN
         IF metric.compute.kind = "none" THEN ComputeMetricsReversed(t, period, i + 1)
         ELSE LET oldValue == getValue(t.data, metric.name, period)
                  newValue == ApplyCompute(metric.compute, t.data, period, oldValue)
              IN  ComputeMetricsReversed(setValue(t, metric.name, period, newValue),
                                         period, i + 1)

\* the inner loop of recompute's first phase: every compute rule, in declaration order
RECURSIVE ComputeMetrics(_, _, _)
ComputeMetrics(t, period, i) ==
    IF t.thrown \/ i > Len(configuration.metrics) THEN t
    ELSE LET metric == configuration.metrics[i] IN
         IF metric.compute.kind = "none" THEN ComputeMetrics(t, period, i + 1)
         ELSE LET oldValue == getValue(t.data, metric.name, period)
                  newValue == ApplyCompute(metric.compute, t.data, period, oldValue)
              IN  ComputeMetrics(setValue(t, metric.name, period, newValue),
                                 period, i + 1)

\* the outer loop of recompute's first phase over the non-aggregate periods,
\* from the period at place first to the one at place last
RECURSIVE ComputePeriods(_, _, _, _)
ComputePeriods(t, periods, first, last) ==
    IF t.thrown \/ first > last THEN t
    ELSE IF first = last THEN ComputeMetrics(t, periods[first], 1)
    ELSE ComputePeriods(ComputePeriods(t, periods, first, (first + last) \div 2),
                        periods, (first + last) \div 2 + 1, last)

\* for (const quarter of [1, 2, 3, 4]), from the given quarter on
RECURSIVE AggregateQuartersOf(_, _, _)
AggregateQuartersOf(t, year, quarter) ==
    IF t.thrown \/ quarter > 4 THEN t
    ELSE LET period == Quarter(quarter, year) IN
         AggregateQuartersOf(computeAggregate(t, period, getMonthsForQuarter(period)),
                             year, quarter + 1)

\* for (const year of years), from the year at place first to the one at place last
RECURSIVE AggregateQuarters(_, _, _, _)
AggregateQuarters(t, years, first, last) ==
    IF t.thrown \/ first > last THEN t
    ELSE IF first = last THEN AggregateQuartersOf(t, years[first], 1)
    ELSE AggregateQuarters(AggregateQuarters(t, years, first, (first + last) \div 2),
                           years, (first + last) \div 2 + 1, last)

RECURSIVE AggregateYears(_, _, _, _)
AggregateYears(t, years, first, last) ==
    IF t.thrown \/ first > last THEN t
    ELSE IF first = last
    THEN computeAggregate(t, Year(years[first]), getMonthsForYear(Year(years[first])))
    ELSE AggregateYears(AggregateYears(t, years, first, (first + last) \div 2),
                        years, (first + last) \div 2 + 1, last)

\* the year aggregates computed whatever the configuration says
RecomputeYearsAlways(t, years) == AggregateYears(t, years, 1, Len(years))

\* recompute, third phase: the year aggregates
RecomputeYears(t, years) ==
    IF configuration.aggregates.year THEN AggregateYears(t, years, 1, Len(years)) ELSE t

\* recompute with the year aggregates computed before the quarter aggregates
RecomputeYearsFirst(t, years) ==
    IF configuration.aggregates.quarter
    THEN AggregateQuarters(RecomputeYears(t, years), years, 1, Len(years))
    ELSE RecomputeYears(t, years)

\* recompute, second phase: the quarter aggregates
RecomputeQuarters(t, years) ==
    RecomputeYears(IF configuration.aggregates.quarter
                   THEN AggregateQuarters(t, years, 1, Len(years)) ELSE t,
                   years)

\* recompute over the non-aggregate periods found when it starts; years is
\* the Set filled while they are visited
RecomputeOver(t, periods) ==
    RecomputeQuarters(ComputePeriods(t, periods, 1, Len(periods)),
                      Distinct([i \in 1..Len(periods) |-> periods[i].year]))

recompute(t) ==
    RecomputeOver(t, SelectSeq(getPeriods(t.data), LAMBDA p : ~isAggregate(p)))

\* for (const value of values), from the value at place first to the one at
\* place last
RECURSIVE SetValues(_, _, _, _)
SetValues(t, values, first, last) ==
    IF t.thrown \/ first > last THEN t
    ELSE IF first = last
    THEN setValue(t, values[first].metric, values[first].period, values[first].value)
    ELSE SetValues(SetValues(t, values, first, (first + last) \div 2),
                   values, (first + last) \div 2 + 1, last)

\* update, after the loop over the values: recompute unless setValue threw
UpdateEnd(t) == IF t.thrown THEN t ELSE recompute(t)

\* MetricsTable.update on a table whose data is d
update(d, values) ==
    UpdateEnd(SetValues([data |-> d, updated |-> <<>>, thrown |-> FALSE], values, 1, Len(values)))

RowValues(metric, row) ==
    [i \in 1..Len(row) |->
        [metric |-> metric, period |-> periodFromKey(row[i].key), value |-> row[i].value]]

RECURSIVE InitialData(_, _)
InitialData(d, i) ==
    IF i > Len(MetricNames) THEN <<>>
    ELSE RowValues(MetricNames[i], d[MetricNames[i]]) \o InitialData(d, i + 1)

\* new Map(): the place of the Map made, the first one that h, the Maps in
\* existence, leaves free
NewMap(h) ==
    CHOOSE a \in 1..(Cardinality(DOMAIN h) + 1) :
        a \notin DOMAIN h /\ \A b \in 1..(a - 1) : b \in DOMAIN h

\* the constructor's new Map(configuration.metrics.map((metric) =>
\* [metric.name, new Map()])), from the metric at place i on: a new, empty
\* row Map for each metric
RECURSIVE NewRows(_, _, _)
NewRows(h, r, i) ==
    IF i > Len(MetricNames) THEN [maps |-> h, rows |-> r]
    ELSE LET Made(a) == NewRows(h @@ (a :> <<>>), r @@ (MetricNames[i] :> a), i + 1)
         IN  Made(NewMap(h))

\* the Maps a table holds, out of the Maps h
Held(h, r) == [a \in {r[m] : m \in DOMAIN r} |-> h[a]]

\* this.data as a table reads it: the entries of the row Map of each metric
Rows(h, r) == [m \in DOMAIN r |-> h[r[m]]]

\* the Maps after a call on the table whose data is r left its rows as
\* written: setValue writes to the row Maps in place, whoever else holds them
Store(h, r, written) ==
    [a \in DOMAIN h |->
        IF \E m \in DOMAIN r : r[m] = a
        THEN written[CHOOSE m \in DOMAIN r : r[m] = a]
        ELSE h[a]]

\* what new leaves once this.update(...initialData) ended as t: the table
\* with its rows as update wrote them, or, when update threw, the throw out
\* of the constructor, no table, and the Maps h as they were (the row Maps
\* made can no longer be reached)
Constructed(h, made, t) ==
    IF t.thrown
    THEN [thrown |-> TRUE, maps |-> h, rows |-> Undefined]
    ELSE [thrown |-> FALSE,
          maps   |-> Store(made.maps, made.rows, t.data),
          rows   |-> made.rows]

\* the constructor once the row Maps are made: this.update(...initialData)
InitialUpdate(h, made, initialData) ==
    Constructed(h, made, update(Rows(made.maps, made.rows), initialData))

\* new MetricsTable(configuration, initialData) among the Maps h: the row
\* Maps are made, then update(...initialData) fills them or throws
MetricsTable(h, initialData) == InitialUpdate(h, NewRows(h, <<>>, 1), initialData)

\* a clone that holds the row Maps of the table itself: new Map(this.data)
shallowClone(h, r) == [thrown |-> FALSE, maps |-> h, rows |-> r]

\* deepClone of the table whose data is r: a new MetricsTable constructed from
\* every stored triple; what the constructor throws, deepClone throws
deepClone(h, r) == MetricsTable(h, InitialData(Rows(h, r), 1))

-----------------------------------------------------------------------------
(* subscribable-metrics-table.ts: class SubscribableMetricsTable.           *)
(* A registry in use is [subs, handles, fired]: the subscriptions, the      *)
(* unsubscribe closures held, and the callbacks invoked so far by the       *)
(* running update.  An unsubscribe closure is [metric, key, callback,       *)
(* existing]: existing tells whether the closure captured a Set (it did     *)
(* not when the subscription created the Set).                              *)

\* subscribe without the check of the metric name: the Map of an undeclared
\* metric is made on demand
subscribeAnyMetric(s, metric, period, callback) ==
    LET key == periodKey(period)
        s0  == IF s = Undefined THEN [m \in Declared |-> <<>>] ELSE s
        s1  == [m \in DOMAIN s0 \cup {metric} |-> IF m \in DOMAIN s0 THEN s0[m] ELSE <<>>]
        existing == MapHas(s1[metric], key)
    IN  << [s1 EXCEPT ![metric] =
                IF ~existing THEN MapSet(@, key, <<callback>>)
                ELSE MapSet(@, key, SetAdd(MapGet(@, key), callback))],
           [metric |-> metric, key |-> key, callback |-> callback,
            existing |-> existing],
           FALSE >>

\* subscribe, up to the return: <<subscriptions, closure returned or Undefined, thrown>>
subscribe(s, metric, period, callback) ==
    LET key == periodKey(period)
        s1  == IF s = Undefined THEN [m \in Declared |-> <<>>] ELSE s
    IN  IF metric \notin DOMAIN s1 THEN <<s1, Undefined, TRUE>>
        ELSE LET existing == MapHas(s1[metric], key) IN
             << [s1 EXCEPT ![metric] =
                     IF ~existing THEN MapSet(@, key, <<callback>>)
                     ELSE MapSet(@, key, SetAdd(MapGet(@, key), callback))],
                [metric |-> metric, key |-> key, callback |-> callback,
                 existing |-> existing],
                FALSE >>

\* the closure subscribe returns: existing?.delete(callback)
unsubscribe(s, handle) ==
    IF handle.existing
    THEN [s EXCEPT ![handle.metric] =
             MapSet(@, handle.key, SetDelete(MapGet(@, handle.key), handle.callback))]
    ELSE s

\* The callbacks a client registers.  "watcher" only takes note (the store
\* callback of useSyncExternalStore); "adder" subscribes the watcher to
\* AdderCell unless its owner holds a closure for it; "remover" calls the
\* closure held for the watcher, if any.
Callbacks == {"watcher", "adder", "remover"}

AdderCell == [metric |-> "beginningMRR", period |-> Month(1, 2023)]

RunCallback(c, n) ==
    IF c = "adder" /\ n.handles["watcher"] = Undefined
    THEN LET r == subscribe(n.subs, AdderCell.metric, AdderCell.period, "watcher")
         IN  [n EXCEPT !.subs = r[1], !.handles["watcher"] = r[2]]
    ELSE IF c = "remover" /\ n.handles["watcher"] # Undefined
    THEN [n EXCEPT !.subs = unsubscribe(n.subs, n.handles["watcher"]),
                   !.handles["watcher"] = Undefined]
    ELSE n

\* for (const subscription of subscriptions): the Set is read while it is iterated
RECURSIVE IterateSet(_, _, _, _)
IterateSet(n, metric, key, idx) ==
    LET set == MapGet(n.subs[metric], key) IN
    IF idx > Len(set) THEN n
    ELSE LET c    == set[idx]
             \* subscription(): the callback finds the table as it is now
             n1   == RunCallback(c, [n EXCEPT !.fired =
                         Append(@, [metric |-> metric, key |-> key, callback |-> c]),
                                              !.seen = Append(@, n.data)])
             set1 == MapGet(n1.subs[metric], key)
             \* entries at or before the iterator that are still in place
             kept == {j \in 1..Len(set1) :
                         \E k \in j..idx : k <= Len(set) /\ set[k] = set1[j]}
         IN  IterateSet(n1, metric, key, Cardinality(kept) + 1)

\* for (const updatedValue of updatedValues), from the entry at place first to
\* the one at place last
RECURSIVE NotifyEntries(_, _, _, _)
NotifyEntries(n, updated, first, last) ==
    IF first > last THEN n
    ELSE IF first = last
    THEN LET metric == updated[first].metric
             key    == periodKey(updated[first].period)
         IN  IF n.subs = Undefined \/ ~MapHas(n.subs[metric], key) THEN n
             ELSE IterateSet(n, metric, key, 1)
    ELSE NotifyEntries(NotifyEntries(n, updated, first, (first + last) \div 2),
                       updated, (first + last) \div 2 + 1, last)

\* the loop of SubscribableMetricsTable.update over the changed values t
\* lists, run on the table as t holds it.  A registry in use also keeps data,
\* the table the callbacks find, and seen: seen[i] is the table the i-th
\* invoked callback reads with getValue.
Notify(t, s, h) ==
    IF t.thrown
    THEN [data |-> t.data, subs |-> s, handles |-> h, fired |-> <<>>, seen |-> <<>>]
    ELSE NotifyEntries([data |-> t.data, subs |-> s, handles |-> h,
                        fired |-> <<>>, seen |-> <<>>],
                       t.updated, 1, Len(t.updated))

\* what a call of update leaves and returns: t from super.update, n from the
\* notifications that followed it
Outcome(t, n) ==
    [data    |-> n.data,
     thrown  |-> t.thrown,
     updated |-> IF t.thrown THEN <<>> ELSE t.updated,
     subs    |-> n.subs,
     handles |-> n.handles,
     fired   |-> n.fired,
     seen    |-> n.seen]

NotifyAfter(t, s, h) == Outcome(t, Notify(t, s, h))

\* update with the loop over the changed values run once the input values are
\* written, and recompute run after it on the table the callbacks left
notifyBeforeRecompute(d, s, h, values) ==
    LET Recomputed(n, t) == Outcome(t, [n EXCEPT !.data = t.data])
        Notified(n, written) == Recomputed(n, UpdateEnd([written EXCEPT !.data = n.data]))
        AfterWrites(written) == Notified(Notify(written, s, h), written)
    IN  AfterWrites(SetValues([data |-> d, updated |-> <<>>, thrown |-> FALSE],
                          values, 1, Len(values)))

\* SubscribableMetricsTable.update on a table whose data is d, with the
\* subscriptions s and the closures h: super.update, then the notifications
\* (none when super.update throws)
subscribableUpdate(d, s, h, values) == NotifyAfter(update(d, values), s, h)

-----------------------------------------------------------------------------
(* Inputs *)

\* the longest argument list given to update
MaxTriples == 2

\* the name the tests use for a metric that is not declared
UnknownMetric == "unknown"

InputMetrics == Declared \cup {UnknownMetric}

InputPeriods == {Month(1, 2023)}

InputValues == {Undefined, Dec(1), Dec(2)}

\* new Decimal(1).div(3)
Third == dividedBy(Dec(1), Dec(3))

Triples == [metric : InputMetrics, period : InputPeriods, value : InputValues]

UpdateArguments == UNION {[1..n -> Triples] : n \in 0..MaxTriples}

\* what a client of the subscribable table writes, and where it subscribes
SubscriberTriples ==
    [metric : {"beginningMRR", UnknownMetric}, period : InputPeriods,
     value : {Dec(1), Dec(2)}]

SubscriberArguments == UNION {[1..n -> SubscriberTriples] : n \in 0..MaxTriples}

SubscribeMetrics == {"beginningMRR", UnknownMetric}

\* what is written to a table that gets cloned
CloneTriples ==
    [metric : Declared, period : InputPeriods, value : {Undefined, Dec(1)}]

\* the periods a reader looks at
ObservedPeriods ==
    {Month(m, 2023) : m \in 1..12} \cup {Quarter(q, 2023) : q \in 1..4} \cup {Year(2023)}

\* the metric names a call was given
MetricsOf(values) == {values[i].metric : i \in 1..Len(values)}

-----------------------------------------------------------------------------
(* The public calls.  call keeps what the caller of the last call saw: the  *)
(* operation, whether a metric name it passed is not declared, and whether  *)
(* Unknown metric was thrown.                                               *)

\* new MetricsTable(configuration): the row Maps are made, and there is no
\* initialData to update with
NewTable == NewRows(<<>>, <<>>, 1)

\* the rows of the table: this.data, each row Map with its entries
data == Rows(maps, rows)

\* the rows of the clone, if any
clone == IF cloneRows = Undefined THEN Undefined ELSE Rows(maps, cloneRows)

Init ==
    /\ cfg \in Configurations
    /\ maps = NewTable.maps
    /\ rows = NewTable.rows
    /\ subs = Undefined
    /\ handles = [c \in Callbacks |-> Undefined]
    /\ cloneRows = Undefined
    /\ call = [op |-> "new", unknown |-> FALSE, thrown |-> FALSE]

\* table.update(...values)
UpdateWith(values) ==
    \E o \in {subscribableUpdate(data, subs, handles, values)} :
        /\ maps' = Store(maps, rows, o.data)
        /\ subs' = o.subs
        /\ handles' = o.handles
        /\ call' = [op      |-> "update",
                    unknown |-> ~(MetricsOf(values) \subseteq Declared),
                    thrown  |-> o.thrown]
        /\ UNCHANGED <<cfg, rows, cloneRows>>

Update == \E values \in UpdateArguments : UpdateWith(values)

Next == Update

\* a MetricsTable under updates of up to MaxTriples values
Spec == Init /\ [][Next]_vars

-----------------------------------------------------------------------------
(* A SubscribableMetricsTable with its subscribers *)

InitSub == Init /\ cfg = "test"

NotifyingUpdate == \E values \in SubscriberArguments : UpdateWith(values)

\* table.getValue(metric, period)
GetValue ==
    \E metric \in InputMetrics, period \in InputPeriods :
        /\ call' = [op      |-> "getValue",
                    unknown |-> metric \notin Declared,
                    thrown  |-> metric \notin DOMAIN data]
        /\ UNCHANGED <<cfg, maps, rows, subs, handles, cloneRows>>

\* table.subscribe(metric, period, c), by an owner that holds no closure for c
Subscribe ==
    \E metric \in SubscribeMetrics, period \in InputPeriods, c \in Callbacks :
        /\ handles[c] = Undefined
        /\ \E r \in {subscribe(subs, metric, period, c)} :
               /\ subs' = r[1]
               /\ handles' = [handles EXCEPT ![c] = r[2]]
               /\ call' = [op      |-> "subscribe",
                           unknown |-> metric \notin Declared,
                           thrown  |-> r[3]]
        /\ UNCHANGED <<cfg, maps, rows, cloneRows>>

\* the owner of c calls the closure subscribe returned, once
Unsubscribe ==
    \E c \in Callbacks :
        /\ handles[c] # Undefined
        /\ subs' = unsubscribe(subs, handles[c])
        /\ handles' = [handles EXCEPT ![c] = Undefined]
        /\ call' = [op |-> "unsubscribe", unknown |-> FALSE, thrown |-> FALSE]
        /\ UNCHANGED <<cfg, maps, rows, cloneRows>>

NextSub == NotifyingUpdate \/ GetValue \/ Subscribe \/ Unsubscribe

SpecSub == InitSub /\ [][NextSub]_vars

-----------------------------------------------------------------------------
(* A MetricsTable and its clone *)

UpdateForClone == \E triple \in CloneTriples : UpdateWith(<<triple>>)

\* clone = table.deepClone(); the clone made before, if any, is let go of,
\* and its row Maps with it unless the table holds them.  When deepClone
\* throws nothing is assigned.
DeepClone ==
    /\ \E made \in {deepClone(Held(maps, rows), rows)} :
           /\ maps' = IF made.thrown THEN maps ELSE made.maps
           /\ cloneRows' = IF made.thrown THEN cloneRows ELSE made.rows
           /\ call' = [op |-> "deepClone", unknown |-> FALSE, thrown |-> made.thrown]
    /\ UNCHANGED <<cfg, rows, subs, handles>>

NextClone == UpdateForClone \/ DeepClone

SpecClone == Init /\ [][NextClone]_vars

-----------------------------------------------------------------------------
(* A MetricsTable and its clone, both updated *)

\* clone.update(value)
UpdateOfClone ==
    /\ clone # Undefined
    /\ \E triple \in CloneTriples :
           \E o \in {update(clone, <<triple>>)} :
               /\ maps' = Store(maps, cloneRows, o.data)
               /\ call' = [op |-> "updateClone", unknown |-> FALSE, thrown |-> o.thrown]
    /\ UNCHANGED <<cfg, rows, subs, handles, cloneRows>>

NextIndep == UpdateForClone \/ DeepClone \/ UpdateOfClone

SpecIndep == Init /\ [][NextIndep]_vars

-----------------------------------------------------------------------------
(* A MetricsTable whose beginningMRR is written for two months of a year *)

MonthTriples ==
    [metric : {"beginningMRR"}, period : {Month(1, 2023), Month(12, 2023)},
     value : InputValues]

MonthArguments == UNION {[1..n -> MonthTriples] : n \in 0..MaxTriples}

UpdateMonths == \E values \in MonthArguments : UpdateWith(values)

NextMonths == UpdateMonths

SpecMonths == Init /\ [][NextMonths]_vars

-----------------------------------------------------------------------------
(* A MetricsTable whose beginningMRR is written for months of two quarters, *)
(* with whole numbers and with a third, also in calls that name a metric    *)
(* that is not declared                                                     *)

QuarterTriples ==
    [metric : {"beginningMRR"}, period : {Month(1, 2023)}, value : {Undefined, Third}]
        \cup [metric : {"beginningMRR"}, period : {Month(2, 2023)}, value : {Dec(10)}]
        \cup [metric : {"beginningMRR"}, period : {Month(12, 2023)},
              value : {Dec(1), Third}]
        \cup [metric : {UnknownMetric}, period : {Month(1, 2023)}, value : {Dec(1)}]

QuarterArguments == UNION {[1..n -> QuarterTriples] : n \in 0..MaxTriples}

UpdateQuarters == \E values \in QuarterArguments : UpdateWith(values)

NextQuarters == UpdateQuarters

SpecQuarters == InitSub /\ [][NextQuarters]_vars

-----------------------------------------------------------------------------
(* The functions of periods.ts applied to periods.  call keeps the          *)
(* arguments and the results.                                               *)

\* years of one to five digits and a negative one
KeyYears == {0 - 1, 5, 999, 2023, 2024, 10000}

PeriodsOf(years) ==
    {Month(m, y) : m \in 1..12, y \in years}
        \cup {Quarter(q, y) : q \in 1..4, y \in years}
        \cup {Year(y) : y \in years}

ValidPeriods == PeriodsOf(KeyYears)

SorterPeriods == PeriodsOf({2023, 2024})

\* periodFromKey(periodKey(period))
KeyRoundTrip ==
    \E period \in ValidPeriods :
        /\ call' = [op      |-> "periodFromKey",
                    period  |-> period,
                    key     |-> periodKey(period),
                    decoded |-> periodFromKey(periodKey(period))]
        /\ UNCHANGED <<cfg, maps, rows, subs, handles, cloneRows>>

\* periodSorter(a, b) and periodSorter(b, a)
Compare ==
    \E a \in SorterPeriods, b \in SorterPeriods :
        /\ call' = [op       |-> "periodSorter",
                    a        |-> a,
                    b        |-> b,
                    result   |-> periodSorter(a, b),
                    reversed |-> periodSorter(b, a)]
        /\ UNCHANGED <<cfg, maps, rows, subs, handles, cloneRows>>

NextPeriods == KeyRoundTrip \/ Compare

SpecPeriods == InitSub /\ [][NextPeriods]_vars

-----------------------------------------------------------------------------
(* periodKey applied to two periods.  call keeps the periods and the keys.  *)

\* a negative year, a year that reads like a month number and a year of four
\* digits
PairYears == {0 - 1, 12, 2023}

PairPeriods == PeriodsOf(PairYears)

\* periodKey(a) and periodKey(b)
KeyPair ==
    \E a \in PairPeriods, b \in PairPeriods :
        /\ call' = [op   |-> "periodKey",
                    a    |-> a,
                    b    |-> b,
                    keyA |-> periodKey(a),
                    keyB |-> periodKey(b)]
        /\ UNCHANGED <<cfg, maps, rows, subs, handles, cloneRows>>

NextKeys == KeyPair

SpecKeys == InitSub /\ [][NextKeys]_vars

-----------------------------------------------------------------------------
(* A MetricsTable written for a year of three digits and a year of four *)

YearTriples ==
    [metric : {"beginningMRR"}, period : {Month(1, 999), Month(1, 2023)},
     value : InputValues]

UpdateYears == \E triple \in YearTriples : UpdateWith(<<triple>>)

NextYears == UpdateYears

SpecYears == Init /\ [][NextYears]_vars

-----------------------------------------------------------------------------
(* A MetricsTable under each setting of the aggregation flags, written for  *)
(* months                                                                   *)

InitToggles ==
    /\ cfg \in ToggleConfigurations
    /\ maps = NewTable.maps
    /\ rows = NewTable.rows
    /\ subs = Undefined
    /\ handles = [c \in Callbacks |-> Undefined]
    /\ cloneRows = Undefined
    /\ call = [op |-> "new", unknown |-> FALSE, thrown |-> FALSE]

NextToggles == UpdateMonths

SpecToggles == InitToggles /\ [][NextToggles]_vars

-----------------------------------------------------------------------------
(* A MetricsTable whose compute rules read computed metrics, written one    *)
(* value at a time for two consecutive months                               *)

OrderPeriods == {Month(1, 2023), Month(2, 2023)}

OrderTriples == [metric : Declared, period : OrderPeriods, value : InputValues]

InitOrder ==
    /\ cfg \in OrderConfigurations
    /\ maps = NewTable.maps
    /\ rows = NewTable.rows
    /\ subs = Undefined
    /\ handles = [c \in Callbacks |-> Undefined]
    /\ cloneRows = Undefined
    /\ call = [op |-> "new", unknown |-> FALSE, thrown |-> FALSE]

UpdateOrder == \E triple \in OrderTriples : UpdateWith(<<triple>>)

NextOrder == UpdateOrder

SpecOrder == InitOrder /\ [][NextOrder]_vars

-----------------------------------------------------------------------------
(* A MetricsTable whose beginningMRR is carried over from month to month,   *)
(* written one value at a time for the last three months of a year          *)

CarryPeriods == {Month(10, 2023), Month(11, 2023), Month(12, 2023)}

CarryTriples ==
    [metric : {"endingMRR", "anotherMetric"}, period : CarryPeriods,
     value : {Dec(1), Dec(2)}]

InitCarry ==
    /\ cfg = "carry"
    /\ maps = NewTable.maps
    /\ rows = NewTable.rows
    /\ subs = Undefined
    /\ handles = [c \in Callbacks |-> Undefined]
    /\ cloneRows = Undefined
    /\ call = [op |-> "new", unknown |-> FALSE, thrown |-> FALSE]

UpdateCarry == \E triple \in CarryTriples : UpdateWith(<<triple>>)

NextCarry == UpdateCarry

SpecCarry == InitCarry /\ [][NextCarry]_vars

-----------------------------------------------------------------------------
(* A MetricsTable with a metric aggregated by first and one by last, written *)
(* for January and December, also in calls that name a metric that is not   *)
(* declared                                                                 *)

FirstLastTriples ==
    [metric : {"beginningMRR"}, period : {Month(1, 2023)}, value : InputValues]
        \cup [metric : {"endingMRR"}, period : {Month(12, 2023)}, value : InputValues]
        \cup [metric : {UnknownMetric}, period : {Month(1, 2023)}, value : {Dec(1)}]

FirstLastArguments == UNION {[1..n -> FirstLastTriples] : n \in 0..MaxTriples}

UpdateFirstLast == \E values \in FirstLastArguments : UpdateWith(values)

NextFirstLast == UpdateFirstLast

SpecFirstLast == InitCarry /\ [][NextFirstLast]_vars

-----------------------------------------------------------------------------
(* A MetricsTable with a metric aggregated by average, and the table of the *)
(* organization targets page with its aggregate functions, written one      *)
(* value at a time for January                                              *)

AggregateConfigurations == {"average", "organization"}

AggregateTriples ==
    [metric : Declared \ {"anotherMetric", "endingMRR", "churnedMRR", "expansionMRR"},
     period : {Month(1, 2023)}, value : InputValues]

InitAggregates ==
    /\ cfg \in AggregateConfigurations
    /\ maps = NewTable.maps
    /\ rows = NewTable.rows
    /\ subs = Undefined
    /\ handles = [c \in Callbacks |-> Undefined]
    /\ cloneRows = Undefined
    /\ call = [op |-> "new", unknown |-> FALSE, thrown |-> FALSE]

UpdateAggregates == \E triple \in AggregateTriples : UpdateWith(<<triple>>)

NextAggregates == UpdateAggregates

SpecAggregates == InitAggregates /\ [][NextAggregates]_vars

-----------------------------------------------------------------------------
(* What a caller observes of one call of update: o is what                  *)
(* subscribableUpdate leaves and returns, compared with the state the call  *)
(* started from.                                                            *)

\* the cells whose stored value differs between the tables d1 and d2
Changed(d1, d2) ==
    {c \in UNION {{<<m, MapKeys(d1[m])[i]>> : i \in 1..Len(d1[m])}
                      \cup {<<m, MapKeys(d2[m])[i]>> : i \in 1..Len(d2[m])} : m \in Declared} :
        MapGet(d1[c[1]], c[2]) # MapGet(d2[c[1]], c[2])}

\* the cells of a changed-values list
Listed(updated) ==
    {<<updated[i].metric, periodKey(updated[i].period)>> : i \in 1..Len(updated)}

\* no cell is listed twice
NoRepeat(updated) ==
    \A i, j \in 1..Len(updated) :
        i # j => <<updated[i].metric, periodKey(updated[i].period)>>
                     # <<updated[j].metric, periodKey(updated[j].period)>>

\* the callbacks registered for a cell
RegisteredFor(s, metric, key) ==
    IF s = Undefined \/ metric \notin DOMAIN s THEN {}
    ELSE IF ~MapHas(s[metric], key) THEN {}
    ELSE {MapGet(s[metric], key)[i] : i \in 1..Len(MapGet(s[metric], key))}

\* every registration: <<metric, key, callback>>
RegisteredSet(s) ==
    IF s = Undefined THEN {}
    ELSE UNION {UNION {{<<m, s[m][i].key, s[m][i].value[j]>> : j \in 1..Len(s[m][i].value)}
                          : i \in 1..Len(s[m])} : m \in DOMAIN s}

\* the callbacks a pass invoked for a cell
FiredFor(fired, metric, key) ==
    {fired[i].callback : i \in {j \in 1..Len(fired) :
                                    fired[j].metric = metric /\ fired[j].key = key}}

\* how many times a pass invoked the callback c registered for a cell
TimesFired(fired, metric, key, c) ==
    Cardinality({i \in 1..Len(fired) :
                    fired[i] = [metric |-> metric, key |-> key, callback |-> c]})

OnlyChanges(updated) ==
    \A i \in 1..Len(updated) : updated[i].value # updated[i].oldValue

\* C1: every entry of the list update returns records a change: its value
\* and its oldValue differ.
C1_OnlyChangesListed ==
    \A values \in UpdateArguments :
        OnlyChanges(subscribableUpdate(data, subs, handles, values).updated)

ListsTheChanges(o) ==
    o.thrown \/ Listed(o.updated) = Changed(data, o.data)

\* C2: the cells in the list update returns are exactly the cells whose
\* stored value differs between the state before and the state after the call.
C2_ListIsTheDifference ==
    \A values \in UpdateArguments :
        ListsTheChanges(subscribableUpdate(data, subs, handles, values))

NoOp(o) ==
    ~o.thrown /\ o.updated = <<>> /\ o.data = data

\* C3: an update with one triple whose value equals the value stored for its
\* cell returns an empty list and leaves every cell unchanged.
C3_NoOpSuppressed ==
    \A m \in Declared, p \in InputPeriods :
        getValue(data, m, p) # Undefined
            => NoOp(subscribableUpdate(data, subs, handles,
                       <<[metric |-> m, period |-> p, value |-> getValue(data, m, p)]>>))

OnlyChangedCellsNotified(o) ==
    \A i \in 1..Len(o.fired) :
        <<o.fired[i].metric, o.fired[i].key>> \in Changed(data, o.data)

\* C4: an update that does not change the stored value of a cell invokes no
\* callback registered for that cell.
C4_NoSpuriousNotification ==
    \A values \in SubscriberArguments :
        OnlyChangedCellsNotified(subscribableUpdate(data, subs, handles, values))

NotifiedOnce(o) ==
    \A cell \in Changed(data, o.data) :
        \A c \in RegisteredFor(subs, cell[1], cell[2]) :
            TimesFired(o.fired, cell[1], cell[2], c) = 1

\* C5: an update that changes a cell invokes each callback registered for
\* the cell exactly once, however many writes touch the cell.
C5_ExactlyOncePerUpdate ==
    \A values \in SubscriberArguments :
        NotifiedOnce(subscribableUpdate(data, subs, handles, values))

\* C6: calling the closure subscribe returned for a callback removes that
\* registration and no other, also for the first subscriber of a cell.
C6_UnsubscribeRemoves ==
    [][call'.op = "unsubscribe"
          => \A c \in Callbacks :
                 (handles[c] # Undefined /\ handles'[c] = Undefined)
                     => RegisteredSet(subs')
                            = RegisteredSet(subs)
                                  \ {<<handles[c].metric, handles[c].key, c>>}]_vars

SnapshotNotified(o) ==
    NoRepeat(o.updated)
        => \A cell \in Listed(o.updated) :
               FiredFor(o.fired, cell[1], cell[2]) = RegisteredFor(subs, cell[1], cell[2])

\* C7: the callbacks a notification pass invokes for a changed cell are the
\* ones registered for it when the pass started, whatever the callbacks
\* subscribe or unsubscribe meanwhile.
C7_SnapshotDuringNotification ==
    \A values \in SubscriberArguments :
        SnapshotNotified(subscribableUpdate(data, subs, handles, values))

\* C8: an update that raises Unknown metric leaves the table as it was
\* before the call.
C8_AtomicOnFailure ==
    [][(call'.op = "update" /\ call'.thrown) => data' = data]_vars

\* C9: getValue, update and subscribe raise Unknown metric exactly when given
\* a metric name that is not declared, and a subscribe that raises it
\* registers no callback and returns no closure.
C9_UnknownMetric ==
    [][/\ call'.op \in {"getValue", "update", "subscribe"}
            => (call'.thrown <=> call'.unknown)
       /\ (call'.op = "subscribe" /\ call'.thrown)
            => (RegisteredSet(subs') = RegisteredSet(subs) /\ handles' = handles)]_vars

\* a subscribe with an undeclared name has failed while callbacks are registered
C9_Witness ==
    /\ call.op = "subscribe"
    /\ call.unknown
    /\ call.thrown
    /\ RegisteredSet(subs) # {}

\* C10: right after deepClone, the clone holds the value of the table for
\* every declared metric and every period.
C10_ClonePreservesValues ==
    call.op = "deepClone"
        => \A m \in Declared, p \in ObservedPeriods :
               getValue(clone, m, p) = getValue(data, m, p)

\* C11: after deepClone, an update of the clone leaves every value of the
\* original unchanged, and an update of the original leaves every value of
\* the clone unchanged.
C11_CloneIndependent ==
    [][/\ call'.op = "updateClone"
            => \A m \in Declared, p \in ObservedPeriods :
                   getValue(data', m, p) = getValue(data, m, p)
       /\ (call'.op = "update" /\ clone # Undefined)
            => \A m \in Declared, p \in ObservedPeriods :
                   getValue(clone', m, p) = getValue(clone, m, p)]_vars

\* the clone was updated and now differs from the original in a stored value
C11_Witness ==
    /\ call.op = "updateClone"
    /\ \E m \in Declared, p \in ObservedPeriods :
           /\ getValue(clone, m, p) # Undefined
           /\ getValue(clone, m, p) # getValue(data, m, p)

\* the metrics aggregated by sum
SumMetrics ==
    {configuration.metrics[i].name :
        i \in {j \in 1..Len(configuration.metrics) :
                   configuration.metrics[j].aggregate.kind = "sum"}}

\* the years a reader looks at
ObservedYears == {p.year : p \in ObservedPeriods}

\* the year has a month that holds a value for some metric
HasBaseValue(d, year) ==
    \E m \in Declared, month \in 1..12 : getValue(d, m, Month(month, year)) # Undefined

\* the sum of the values a metric holds over the periods, absent as zero
SumOver(d, metric, periods) == DecimalSum(ValuesOrZero(d, metric, periods))

\* the cell of the aggregate period holds the sum of its months
HoldsSum(d, metric, period) ==
    getValue(d, metric, period)
        = SumOver(d, metric, IF isQuarter(period) THEN getMonthsForQuarter(period)
                             ELSE getMonthsForYear(period))

\* the quarter a month belongs to
QuarterOf(month) == Quarter(((month.month - 1) \div 3) + 1, month.year)

\* the keys of the quarters and years a reader looks at
AggregateKeys == {periodKey(p) : p \in {q \in ObservedPeriods : ~isMonth(q)}}

\* C12: with quarter and year aggregation enabled, right after an update,
\* for every sum metric and every year with a month that holds a value, each
\* quarter holds the sum of its three months and the year the sum of its
\* twelve months, absent months counting as zero.
C12_SumAggregation ==
    (call.op = "update" /\ configuration.aggregates.quarter /\ configuration.aggregates.year)
        => \A m \in SumMetrics, y \in ObservedYears :
               HasBaseValue(data, y)
                   => /\ \A q \in 1..4 : HoldsSum(data, m, Quarter(q, y))
                      /\ HoldsSum(data, m, Year(y))

OnlyOwnAggregates(o, metric, month) ==
    \A c \in Listed(o.updated) \cup Changed(data, o.data) :
        (c[1] = metric /\ c[2] \in AggregateKeys)
            => c[2] \in {periodKey(QuarterOf(month)), periodKey(Year(month.year))}

\* C13: an update that writes one month of a sum metric changes and lists,
\* among the aggregate cells of that metric, only the quarter of the month
\* and the year of the month.
C13_PartialReaggregation ==
    \A m \in SumMetrics, p \in InputPeriods, v \in InputValues :
        OnlyOwnAggregates(subscribableUpdate(data, subs, handles,
                              <<[metric |-> m, period |-> p, value |-> v]>>), m, p)

\* C20: after updates on month periods that returned, every quarter or year
\* cell of a sum metric that holds a value holds the sum of the values
\* stored for its months.
C20_AggregatesConsistent ==
    (call.op = "update" /\ ~call.thrown)
        => \A m \in SumMetrics, p \in {q \in ObservedPeriods : ~isMonth(q)} :
               getValue(data, m, p) # Undefined => HoldsSum(data, m, p)

\* the metrics that have a compute rule
ComputedMetrics ==
    {configuration.metrics[i].name :
        i \in {j \in 1..Len(configuration.metrics) :
                   configuration.metrics[j].compute.kind # "none"}}

\* the entries from i on are writes of the triples from j on, in their order
RECURSIVE Embeds(_, _, _, _)
Embeds(entries, i, values, j) ==
    IF i > Len(entries) THEN TRUE
    ELSE IF j > Len(values) THEN FALSE
    ELSE IF /\ entries[i].metric = values[j].metric
            /\ entries[i].period = values[j].period
            /\ entries[i].value = values[j].value
    THEN Embeds(entries, i + 1, values, j + 1)
    ELSE Embeds(entries, i, values, j + 1)

\* 1 for an entry of a month, 2 of a quarter, 3 of a year
PhaseRank(entry) ==
    IF isMonth(entry.period) THEN 1 ELSE IF isQuarter(entry.period) THEN 2 ELSE 3

\* the entries of months
MonthEntries(updated) == SelectSeq(updated, LAMBDA e : isMonth(e.period))

\* months, then quarters in order within a year, then years; the month
\* entries are input writes in input order followed by computed values
OrderedByPhase(updated, values) ==
    /\ \A i \in 1..(Len(updated) - 1) :
           /\ PhaseRank(updated[i]) <= PhaseRank(updated[i + 1])
           /\ (isQuarter(updated[i].period) /\ isQuarter(updated[i + 1].period)
                 /\ updated[i].period.year = updated[i + 1].period.year)
                => updated[i].period.quarter <= updated[i + 1].period.quarter
    /\ \E n \in 0..Len(MonthEntries(updated)) :
           /\ Embeds(SubSeq(MonthEntries(updated), 1, n), 1, values, 1)
           /\ \A i \in (n + 1)..Len(MonthEntries(updated)) :
                  MonthEntries(updated)[i].metric \in ComputedMetrics

\* C14: the list update returns holds the changes of the input triples in
\* input order, then the changes made by compute rules, then the quarter
\* changes (quarters 1 to 4 in order), then the year changes.
C14_OrderedByPhase ==
    \A values \in MonthArguments :
        OrderedByPhase(subscribableUpdate(data, subs, handles, values).updated, values)

AllPhases(updated) ==
    /\ \E i \in 1..Len(updated) : isMonth(updated[i].period) /\ i = 1
    /\ \E i \in 1..Len(updated) :
           isMonth(updated[i].period) /\ i > 1 /\ updated[i].metric \in ComputedMetrics
    /\ \E i \in 1..Len(updated) : isQuarter(updated[i].period)
    /\ \E i \in 1..Len(updated) : isYear(updated[i].period)

\* after an update, a table from which one more update returns an input
\* write, a computed value, quarter changes and a year change
C14_Witness ==
    /\ call.op = "update"
    /\ \E values \in MonthArguments :
           AllPhases(subscribableUpdate(data, subs, handles, values).updated)

\* C15: for every valid period p, of any integer year,
\* periodFromKey(periodKey(p)) is p: same shape, same field values.
C15_KeyRoundTrip ==
    call.op = "periodFromKey" => call.decoded = call.period

\* the sign of a comparator result
Sign(n) == IF n < 0 THEN 0 - 1 ELSE IF n > 0 THEN 1 ELSE 0

\* C16: for two periods a and b of the same year, the sign of
\* periodSorter(a, b) is the opposite of the sign of periodSorter(b, a).
C16_SorterAntisymmetric ==
    (call.op = "periodSorter" /\ call.a.year = call.b.year)
        => Sign(call.result) = 0 - Sign(call.reversed)

\* C17: for a year period Y and a month or quarter x of the same year,
\* periodSorter(x, Y) < 0 and periodSorter(Y, x) > 0.
C17_YearSortsLast ==
    (/\ call.op = "periodSorter"
     /\ call.a.year = call.b.year
     /\ ~isYear(call.a)
     /\ isYear(call.b))
        => (call.result < 0 /\ call.reversed > 0)

\* the period holds a value for some metric
HoldsValue(d, period) ==
    \E m \in Declared : getValue(d, m, period) # Undefined

\* how many times the period occurs in the list
Occurrences(periods, period) ==
    Cardinality({i \in 1..Len(periods) : periods[i] = period})

ExactlyThePeriodsHeld(d, periods) ==
    /\ \A i \in 1..Len(periods) : HoldsValue(d, periods[i])
    /\ \A period \in PeriodsOf({999, 2023}) :
           HoldsValue(d, period) => Occurrences(periods, period) = 1

\* C18: getPeriods returns each period that holds a value for some metric
\* exactly once, and no other period.
C18_GetPeriods == ExactlyThePeriodsHeld(data, getPeriods(data))

\* C19: after updates that name only months, no quarter holds a value when
\* quarter aggregation is disabled and no year holds a value when year
\* aggregation is disabled; isAggregate is true exactly for the quarters
\* with quarter aggregation enabled and the years with year aggregation
\* enabled.
C19_TogglesGate ==
    /\ ~configuration.aggregates.quarter
         => \A p \in ObservedPeriods : isQuarter(p) => ~HoldsValue(data, p)
    /\ ~configuration.aggregates.year
         => \A p \in ObservedPeriods : isYear(p) => ~HoldsValue(data, p)
    /\ \A p \in ObservedPeriods :
           isAggregate(p) <=> \/ isQuarter(p) /\ configuration.aggregates.quarter
                              \/ isYear(p) /\ configuration.aggregates.year

\* with quarter aggregation disabled and year aggregation enabled, an update
\* has written a month and the year holds a value
C19_Witness ==
    /\ call.op = "update"
    /\ ~configuration.aggregates.quarter
    /\ configuration.aggregates.year
    /\ HoldsValue(data, Month(12, 2023))
    /\ HoldsValue(data, Year(2023))

\* every callback invoked reads, for every cell of the returned list, the value
\* the table holds when the call returns
SeesFinalValues(o) ==
    \A i \in 1..Len(o.fired) :
        \A cell \in Listed(o.updated) :
            MapGet(o.seen[i][cell[1]], cell[2]) = MapGet(o.data[cell[1]], cell[2])

\* C21: in SubscribableMetricsTable.update every callback is invoked after
\* the input writes, the compute pass and the aggregate pass of the call: when
\* a callback runs, getValue returns the final value of every cell of the
\* changed-values list.
C21_NotifiedAfterResolution ==
    \A values \in SubscriberArguments :
        SeesFinalValues(subscribableUpdate(data, subs, handles, values))

\* a callback invoked for a written cell while the list also holds a computed
\* value, a quarter and a year
NotifiedOfAllPhases(o) ==
    /\ o.fired # <<>>
    /\ AllPhases(o.updated)

\* after an update, a table with a subscriber from which one more update
\* invokes a callback and returns changes of every phase
C21_Witness ==
    /\ call.op = "update"
    /\ ~call.thrown
    /\ \E values \in SubscriberArguments :
           NotifiedOfAllPhases(subscribableUpdate(data, subs, handles, values))

\* the place of a metric in the declaration
DeclaredAt(name) == CHOOSE i \in 1..Len(MetricNames) : MetricNames[i] = name

\* the table of an update in progress, once its values are written
Written(d, values) ==
    SetValues([data |-> d, updated |-> <<>>, thrown |-> FALSE], values, 1, Len(values))

\* what the rule of the i-th metric reads for the period: the value the pass
\* left when the metric read is declared before, the value from before the
\* pass otherwise
ReadByRule(pre, post, i, period) ==
    LET from == configuration.metrics[i].compute.from IN
    IF DeclaredAt(from) < i THEN getValue(post, from, period)
    ELSE getValue(pre, from, period)

\* every metric computed as a copy holds, for every base period, what its
\* rule returns on the value read
ComputeOrderRespected(pre, post) ==
    \A i \in 1..Len(configuration.metrics) :
        configuration.metrics[i].compute.kind = "copy"
            => \A p \in {q \in OrderPeriods : HoldsValue(pre, q)} :
                   getValue(post, MetricNames[i], p)
                       = IF ReadByRule(pre, post, i, p) = Undefined
                         THEN getValue(pre, MetricNames[i], p)
                         ELSE ReadByRule(pre, post, i, p)

\* C22: within each base period of a recompute pass the compute rules run in
\* declaration order: a rule that reads another metric for the same period
\* sees the value this pass gave it when that metric is declared before, and
\* its value from before the pass when it is declared after.
C22_DeclarationOrder ==
    \A triple \in OrderTriples :
        ComputeOrderRespected(Written(data, <<triple>>).data,
                              update(data, <<triple>>).data)

\* the copy rule of the i-th metric read, for the month, a value that the
\* pass changed
ReadChanged(pre, post, i, period) ==
    /\ configuration.metrics[i].compute.kind = "copy"
    /\ getValue(pre, configuration.metrics[i].compute.from, period)
           # getValue(post, configuration.metrics[i].compute.from, period)
    /\ getValue(pre, configuration.metrics[i].compute.from, period) # Undefined

\* an update has left a metric that read the new value of a metric declared
\* before it and a metric that read the old value of a metric declared after
C22_Witness ==
    /\ call.op = "update"
    /\ \E triple \in OrderTriples, i, j \in 1..Len(MetricNames), p \in OrderPeriods :
           /\ ReadChanged(Written(data, <<triple>>).data, update(data, <<triple>>).data, i, p)
           /\ ReadChanged(Written(data, <<triple>>).data, update(data, <<triple>>).data, j, p)
           /\ DeclaredAt(configuration.metrics[i].compute.from) < i
           /\ DeclaredAt(configuration.metrics[j].compute.from) > j

\* every metric carried over from the previous month holds, for every month
\* after January that holds a value, what the metric it reads holds for the
\* month before
Propagated(d) ==
    \A i \in 1..Len(configuration.metrics) :
        configuration.metrics[i].compute.kind = "previous"
            => \A p \in {q \in ObservedPeriods : isMonth(q) /\ q.month > 1} :
                   HoldsValue(d, p)
                       => getValue(d, MetricNames[i], p)
                              = getValue(d, configuration.metrics[i].compute.from,
                                         Month(p.month - 1, p.year))

\* C23: the base periods are recomputed in ascending order: with a metric
\* derived from a later-declared metric's value of the previous month, one
\* update carries a change through every later known month of the year, and
\* an update with no input right after it changes nothing.
C23_AscendingRecompute ==
    (call.op = "update" /\ ~call.thrown)
        => /\ Propagated(data)
           /\ update(data, <<>>).data = data

\* the four quarters of a year
QuartersOf(year) == [q \in 1..4 |-> Quarter(q, year)]

\* C24: with quarter and year aggregation enabled, after updates whose
\* triples name only months, every year cell of a sum metric that holds a
\* value holds the sum of the four quarter cells of the year.
C24_YearIsSumOfQuarters ==
    \A m \in SumMetrics, y \in ObservedYears :
        getValue(data, m, Year(y)) # Undefined
            => /\ \A q \in 1..4 : getValue(data, m, Quarter(q, y)) # Undefined
               /\ DecEq(getValue(data, m, Year(y)), SumOver(data, m, QuartersOf(y)))

\* the metrics aggregated the given way
AggregatedBy(kind) ==
    {configuration.metrics[i].name :
        i \in {j \in 1..Len(configuration.metrics) :
                   configuration.metrics[j].aggregate.kind = kind}}

\* every quarter and the year hold what the month at place first(n) of their
\* n months holds, or nothing when that month holds nothing
HoldsMonthAt(d, metric, year, first) ==
    /\ \A q \in 1..4 :
           getValue(d, metric, Quarter(q, year))
               = getValue(d, metric, Month(3 * q - 2 + (IF first THEN 0 ELSE 2), year))
    /\ getValue(d, metric, Year(year))
           = getValue(d, metric, Month(IF first THEN 1 ELSE 12, year))

\* C25: right after an update, for every year with a base period that holds
\* a value, a metric aggregated by first holds in each quarter the value of
\* the quarter's first month and in the year the value of January, a metric
\* aggregated by last the value of the quarter's last month and of December;
\* the aggregate cell is absent when that month's value is absent.
C25_FirstLastAggregation ==
    call.op = "update"
        => \A y \in ObservedYears :
               HasBaseValue(data, y)
                   => /\ \A m \in AggregatedBy("first") : HoldsMonthAt(data, m, y, TRUE)
                      /\ \A m \in AggregatedBy("last") : HoldsMonthAt(data, m, y, FALSE)

\* C26: periodKey is injective over the valid periods: two periods have the
\* same key only if they have the same shape and the same field values.
C26_KeyInjective ==
    call.op = "periodKey" => (call.keyA = call.keyB => call.a = call.b)

\* the keys of a quarter and of a month of the same year were compared
C26_Witness ==
    /\ call.op = "periodKey"
    /\ isQuarter(call.a)
    /\ isMonth(call.b)
    /\ call.a.year = call.b.year
    /\ call.a.quarter = call.b.month
    /\ call.keyA # call.keyB

====
